---- MODULE Spec2Model ----
(***************************************************************************)
(* jf (Json difF): the diff engine of package jf, as a state machine over  *)
(* one Differ.  The operations are the Add* rule registrations and Diff.   *)
(* Values are the Go values objx.FromJSON yields for a JSON document:      *)
(* nil, bool, int (an integral number), float64 (a non-integral number),   *)
(* string, []interface{} and objx.Map.                                     *)
(*                                                                         *)
(* Numbers: an int n is [kind |-> "Int", n |-> n]; a float64 is counted in *)
(* halves, [kind |-> "Float", h |-> h] with h odd standing for h/2, so     *)
(* that int-to-float conversion is not the identity.  Texts (selectors,    *)
(* JSON representations, keys, string values) are TLA+ strings.            *)
(***************************************************************************)
EXTENDS Integers, Sequences, FiniteSets, TLC

VARIABLES
  rulesA,   \* Differ.rulesA: the rules registered for side A, in order
  rulesB,   \* Differ.rulesB: the rules registered for side B, in order
  diff,     \* Differ.diff: the Differ's own stored diff list
  jsonA,    \* the left document, parsed
  jsonB,    \* the right document, parsed
  call,     \* the last Diff call: the rules it ran under, what it returned
  cli       \* the command jf: where main stands, its arguments, its exit

vars == <<rulesA, rulesB, diff, jsonA, jsonB, call, cli>>

----------------------------------------------------------------------------
(* Bounds of the model *)

MaxRules == 1     \* registrations on one Differ
MaxLen == 2       \* longest array among the inputs
MaxFloatRules == 2  \* float-equal registrations on one Differ
MaxArgs == 3      \* most positional arguments of the command
MaxCustomRules == 2  \* custom-equal registrations on one Differ

----------------------------------------------------------------------------
(* Values *)

Null == [kind |-> "Null"]
BoolV(b) == [kind |-> "Bool", b |-> b]
IntV(n) == [kind |-> "Int", n |-> n]
FloatV(h) == [kind |-> "Float", h |-> h]
StrV(s) == [kind |-> "Str", s |-> s]
ArrV(items) == [kind |-> "Array", items |-> items]
ObjV(fields) == [kind |-> "Object", fields |-> fields]

EmptyMap == [k \in {} |-> Null]

IsNil(v) == v.kind = "Null"
IsBool(v) == v.kind = "Bool"
IsInt(v) == v.kind = "Int"
IsFloat64(v) == v.kind = "Float"
IsStr(v) == v.kind = "Str"
IsInterSlice(v) == v.kind = "Array"
IsObjxMap(v) == v.kind = "Object"

\* objx: a []interface{} counts as a slice of maps when every element is a
\* map, which an empty slice is
IsObjxMapSlice(v) ==
  /\ v.kind = "Array"
  /\ \A i \in 1..Len(v.items) : v.items[i].kind = "Object"

\* reflect.TypeOf(v.Data()): the Go dynamic type
TypeOf(v) == v.kind

----------------------------------------------------------------------------
(* Texts *)

Abs(x) == IF x < 0 THEN -x ELSE x

Char(s, i) == SubSeq(s, i, i)

\* the byte value of the characters the model's texts are made of
Code(c) ==
  CASE c = "+" -> 43 [] c = "-" -> 45 [] c = "." -> 46
    [] c = "0" -> 48 [] c = "1" -> 49 [] c = "2" -> 50 [] c = "3" -> 51
    [] c = "4" -> 52 [] c = "5" -> 53 [] c = "6" -> 54 [] c = "7" -> 55
    [] c = "8" -> 56 [] c = "9" -> 57
    [] c = "[" -> 91 [] c = "]" -> 93
    [] c = "a" -> 97 [] c = "b" -> 98 [] c = "c" -> 99 [] c = "d" -> 100
    [] c = "e" -> 101 [] c = "i" -> 105 [] c = "k" -> 107 [] c = "l" -> 108
    [] c = "m" -> 109 [] c = "n" -> 110 [] c = "s" -> 115 [] c = "t" -> 116
    [] c = "u" -> 117 [] c = "y" -> 121
    [] OTHER -> 127

\* s < t as Go compares strings: bytewise, a proper prefix first
RECURSIVE StrLess(_, _)
StrLess(s, t) ==
  IF t = "" THEN FALSE
  ELSE IF s = "" THEN TRUE
  ELSE IF Code(Char(s, 1)) # Code(Char(t, 1))
       THEN Code(Char(s, 1)) < Code(Char(t, 1))
       ELSE StrLess(SubSeq(s, 2, Len(s)), SubSeq(t, 2, Len(t)))

HasPrefix(s, p) == Len(p) <= Len(s) /\ SubSeq(s, 1, Len(p)) = p

Contains(s, p) ==
  \E i \in 0..(Len(s) - Len(p)) : SubSeq(s, i + 1, i + Len(p)) = p

----------------------------------------------------------------------------
(* Selectors and rules *)

\* a faulty joinSelectors: the dot also before an index step
joinSelectorsDotted(mainSelector, selector) ==
  IF mainSelector = "" THEN selector ELSE mainSelector \o "." \o selector

joinSelectors(mainSelector, selector) ==
  IF mainSelector = "" THEN selector
  ELSE IF HasPrefix(selector, "[") THEN mainSelector \o selector
  ELSE mainSelector \o "." \o selector

\* fmt.Sprintf("[%d]", idx), idx counted from 0
IndexStep(idx) == "[" \o ToString(idx) \o "]"

\* The compiled regular expressions of the model: `.*` and a text without
\* metacharacters (a dot escaped), both unanchored
ReAny == [kind |-> "any"]
ReLit(text) == [kind |-> "lit", text |-> text]

\* regexp.MatchString
MatchString(re, selector) ==
  IF re.kind = "any" THEN TRUE ELSE Contains(selector, re.text)

\* FloatEqualFunc values: the built-in default, the two functions of the
\* tests (|a-b| <= 0.5, |a-b| <= 1.0) and the nil function of a rule or a
\* jsonI built without one.  Arguments are counted in halves.
defaultFloatEqual(a, b) == Abs(a - b) = 0   \* 1e-9 is less than one half

FloatEqualApply(fn, a, b) ==
  CASE fn = "default" -> defaultFloatEqual(a, b)
    [] fn = "half" -> Abs(a - b) <= 1
    [] fn = "one" -> Abs(a - b) <= 2

Rule(selector, action, fn) ==
  [selector |-> selector, action |-> action, floatEqualFunc |-> fn]

match(rule, selector) == MatchString(rule.selector, selector)

\* the loop of matchRule over one list: is there a rule of the action
\* matching the selector
MatchIn(rules, selector, action) ==
  \E i \in 1..Len(rules) : rules[i].action = action /\ match(rules[i], selector)

matchRule(d, selector, action) ==
  [a |-> MatchIn(d.rulesA, selector, action),
   b |-> MatchIn(d.rulesB, selector, action)]

\* a faulty shouldCoerceNull: a rule of either side counts for both sides
shouldCoerceNullAnySide(d, selector) ==
  LET m == matchRule(d, selector, "coercenull")
  IN [a |-> m.a \/ m.b, b |-> m.a \/ m.b]

shouldCoerceNull(d, selector) == matchRule(d, selector, "coercenull")
\* a faulty shouldIgnore: a rule of either side counts for both sides
shouldIgnoreAnySide(d, selector) ==
  LET m == matchRule(d, selector, "ignore")
  IN [a |-> m.a \/ m.b, b |-> m.a \/ m.b]

shouldIgnore(d, selector) == matchRule(d, selector, "ignore")
shouldIgnoreIfZero(d, selector) == matchRule(d, selector, "ignoreIfZero")
shouldIgnoreOrder(d, selector) == matchRule(d, selector, "ignoreOrder").a
shouldConvertStringToNumber(d, selector) == matchRule(d, selector, "stringNumber").a

\* a faulty floatEqualFunc: the last matching rule wins
floatEqualFuncLast(d, selector) ==
  LET hits == {i \in 1..Len(d.rulesA) :
                 d.rulesA[i].action = "floatEqual" /\ match(d.rulesA[i], selector)}
  IN IF hits = {} THEN "default"
     ELSE d.rulesA[CHOOSE i \in hits : \A j \in hits : i >= j].floatEqualFunc

\* the first float-equal rule of rulesA matching the selector, else the default
floatEqualFunc(d, selector) ==
  LET hits == {i \in 1..Len(d.rulesA) :
                 d.rulesA[i].action = "floatEqual" /\ match(d.rulesA[i], selector)}
  IN IF hits = {} THEN "default"
     ELSE d.rulesA[CHOOSE i \in hits : \A j \in hits : i <= j].floatEqualFunc

\* mustFloat64 / float64OrZero: the number as a float64, in halves
mustFloat64(v) == IF IsInt(v) THEN 2 * v.n ELSE v.h
float64OrZero(v) == IF IsInt(v) THEN 2 * v.n ELSE IF IsFloat64(v) THEN v.h ELSE 0

----------------------------------------------------------------------------
(* jsonI: a value on its way into a patch *)

\* boxed: the value is held as *objx.Value (jsonI{i: valueA}); otherwise it
\* is the bare element of a slice (jsonI{i: a})
JsonI(v, boxed, fn) == [i |-> v, boxed |-> boxed, floatEqualFunc |-> fn]

\* sort.Strings of the keys of a map
RECURSIVE SortKeys(_)
SortKeys(S) ==
  IF S = {} THEN <<>>
  ELSE LET m == CHOOSE k \in S : \A j \in S : j = k \/ StrLess(k, j)
       IN <<m>> \o SortKeys(S \ {m})

\* the orders in which a run ranges over its maps (Go leaves the order of
\* range over a map open): ascending, descending, ascending from the
\* second key on
Iterations == {"up", "down", "rot"}

\* for key := range m: the keys in the order of the run
RangeKeys(m, range) ==
  LET up == SortKeys(DOMAIN m)
      n == Len(up)
  IN CASE range = "up" -> up
       [] range = "down" -> [i \in 1..n |-> up[n + 1 - i]]
       [] range = "rot" -> [i \in 1..n |-> up[(i % n) + 1]]

\* sort.Strings
RECURSIVE Insert(_, _)
Insert(sorted, key) ==
  IF sorted = <<>> THEN <<key>>
  ELSE IF StrLess(key, Head(sorted)) THEN <<key>> \o sorted
  ELSE <<Head(sorted)>> \o Insert(Tail(sorted), key)

RECURSIVE SortStrings(_)
SortStrings(keys) ==
  IF keys = <<>> THEN <<>> ELSE Insert(SortStrings(Tail(keys)), Head(keys))

\* a faulty sortedKeys: the keys in descending order
sortedKeysDescending(m, range) ==
  LET up == SortKeys(DOMAIN m)
  IN [i \in 1..Len(up) |-> up[Len(up) + 1 - i]]

\* a faulty sortedKeys: the keys as the range delivers them
sortedKeysUnsorted(m, range) == RangeKeys(m, range)

sortedKeys(m, range) == SortStrings(RangeKeys(m, range))

\* json.Marshal
RECURSIVE Marshal(_)
RECURSIVE MarshalItems(_, _)
RECURSIVE MarshalFields(_, _, _)
MarshalItems(items, i) ==
  IF i > Len(items) THEN ""
  ELSE (IF i > 1 THEN "," ELSE "") \o Marshal(items[i]) \o MarshalItems(items, i + 1)
MarshalFields(fields, keys, i) ==
  IF i > Len(keys) THEN ""
  ELSE (IF i > 1 THEN "," ELSE "") \o "\"" \o keys[i] \o "\":"
       \o Marshal(fields[keys[i]]) \o MarshalFields(fields, keys, i + 1)
Marshal(v) ==
  CASE v.kind = "Null" -> "null"
    [] v.kind = "Bool" -> IF v.b THEN "true" ELSE "false"
    [] v.kind = "Int" -> ToString(v.n)
    [] v.kind = "Float" -> ToString(v.h \div 2) \o ".5"
    [] v.kind = "Str" -> "\"" \o v.s \o "\""
    [] v.kind = "Array" -> "[" \o MarshalItems(v.items, 1) \o "]"
    [] v.kind = "Object" -> "{" \o MarshalFields(v.fields, SortKeys(DOMAIN v.fields), 1) \o "}"

JSON(i) == Marshal(i.i)

\* isZero: "zero", "nonzero", or "panic" (the panic at the end of the type
\* switch, or the call of a nil floatEqualFunc)
isZero(i) ==
  LET v == i.i IN
  CASE v.kind = "Int" -> IF v.n = 0 THEN "zero" ELSE "nonzero"
    [] v.kind = "Float" ->
         IF i.floatEqualFunc = "nil" THEN "panic"
         ELSE IF FloatEqualApply(i.floatEqualFunc, v.h, 0) THEN "zero" ELSE "nonzero"
    [] v.kind = "Str" -> IF v.s = "" THEN "zero" ELSE "nonzero"
    [] v.kind = "Bool" -> IF ~v.b THEN "zero" ELSE "nonzero"
    [] v.kind = "Array" ->
         IF ~i.boxed THEN "panic"
         ELSE IF Len(v.items) = 0 THEN "zero" ELSE "nonzero"
    [] v.kind = "Object" ->
         IF ~i.boxed THEN "panic"
         ELSE IF DOMAIN v.fields = {} THEN "zero" ELSE "nonzero"
    [] v.kind = "Null" -> IF ~i.boxed THEN "panic" ELSE "zero"

----------------------------------------------------------------------------
(* tryAsNumber *)

IsDigit(c) == Code(c) >= Code("0") /\ Code(c) <= Code("9")

AllDigits(s) == \A i \in 1..Len(s) : IsDigit(Char(s, i))

Unsigned(s) ==
  IF HasPrefix(s, "+") \/ HasPrefix(s, "-") THEN SubSeq(s, 2, Len(s)) ELSE s

DotAt(s) == CHOOSE i \in 1..Len(s) : Char(s, i) = "."
IntPart(s) == IF Contains(s, ".") THEN SubSeq(s, 1, DotAt(s) - 1) ELSE s
FracPart(s) == IF Contains(s, ".") THEN SubSeq(s, DotAt(s) + 1, Len(s)) ELSE ""

\* strconv.Atoi succeeds: an optional sign and one digit or more
AtoiOk(s) == Unsigned(s) # "" /\ AllDigits(Unsigned(s))

\* strconv.ParseFloat succeeds, for a text of sign, digits and dots: digits
\* around one dot, one digit at least
ParseFloatOk(s) ==
  LET u == Unsigned(s) IN
  /\ AllDigits(IntPart(u)) /\ AllDigits(FracPart(u))
  /\ IntPart(u) \o FracPart(u) # ""

\* the text is a JSON number: -? (0 | [1-9][0-9]*) (. [0-9]+)?
JSONNumberOk(s) ==
  LET u == IF HasPrefix(s, "-") THEN SubSeq(s, 2, Len(s)) ELSE s IN
  /\ IntPart(u) # "" /\ AllDigits(IntPart(u))
  /\ (Len(IntPart(u)) > 1 => Char(u, 1) # "0")
  /\ (Contains(u, ".") => FracPart(u) # "" /\ AllDigits(FracPart(u)))

RECURSIVE DigitsValue(_)
DigitsValue(s) ==
  IF s = "" THEN 0
  ELSE 10 * DigitsValue(SubSeq(s, 1, Len(s) - 1)) + (Code(Char(s, Len(s))) - Code("0"))

\* the number a JSON number text denotes, as objx.FromJSON delivers it: an
\* int when integral, else a float64 (the model's texts have fractions of
\* zeros, or of a 5 and zeros)
NumberOf(s) ==
  LET neg == HasPrefix(s, "-")
      u == IF neg THEN SubSeq(s, 2, Len(s)) ELSE s
      whole == DigitsValue(IntPart(u))
      half == FracPart(u) # "" /\ Char(FracPart(u), 1) = "5"
      sign == IF neg THEN -1 ELSE 1
  IN IF half THEN FloatV(sign * (2 * whole + 1)) ELSE IntV(sign * whole)

Panicked == [kind |-> "Panic"]

\* the value, the number its text denotes, or Panicked when objx.MustFromJSON
\* rejects a text that strconv accepted
tryAsNumber(valueA) ==
  IF ~IsStr(valueA) THEN valueA
  ELSE LET aStr == valueA.s
           isNumber == IF Contains(aStr, ".") THEN ParseFloatOk(aStr) ELSE AtoiOk(aStr)
       IN IF ~isNumber THEN valueA
          ELSE IF ~JSONNumberOk(aStr) THEN Panicked
          ELSE NumberOf(aStr)

----------------------------------------------------------------------------
(* The patch accumulator.  d is the Differ a traversal runs on: its diff   *)
(* list, its rules, and err: "nil" while the traversal goes on,            *)
(* "unsupported" once diffValues has returned its error, "mismatch" for    *)
(* the error of diffInterSlice, "panic" once a panic unwinds the call.     *)

SingleDiff(selector, valueA, valueB) ==
  [selector |-> selector, valueA |-> valueA, valueB |-> valueB]

\* a faulty Differ of a run: its list starts as the list of the call before
NewRunKept(rA, rB) ==
  [diff |-> call.lines, rulesA |-> rA, rulesB |-> rB, err |-> "nil", range |-> "up"]

\* range is the order in which the run ranges over its maps
NewRun(rA, rB) ==
  [diff |-> <<>>, rulesA |-> rA, rulesB |-> rB, err |-> "nil", range |-> "up"]

clone(d) == [NewRun(d.rulesA, d.rulesB) EXCEPT !.range = d.range]

Emit(d, line) == [d EXCEPT !.diff = Append(@, line)]
Fail(d, e) == [d EXCEPT !.err = e]

lineA(d, mainSelector, sel, valueA) ==
  LET selector == joinSelectors(mainSelector, sel)
      shouldIgnoreA == shouldIgnore(d, selector).a
      shouldIgnoreIfZeroA == shouldIgnoreIfZero(d, selector).a
  IN IF shouldIgnoreA THEN d
     ELSE IF shouldIgnoreIfZeroA /\ isZero(valueA) = "panic" THEN Fail(d, "panic")
     ELSE IF shouldIgnoreIfZeroA /\ isZero(valueA) = "zero" THEN d
     ELSE Emit(d, SingleDiff(selector, JSON(valueA), ""))

lineAB(d, mainSelector, sel, valueA, valueB) ==
  LET selector == joinSelectors(mainSelector, sel)
      ign == shouldIgnore(d, selector)
      ifz == shouldIgnoreIfZero(d, selector)
  IN IF ign.a \/ ign.b THEN d
     ELSE IF ifz.a /\ isZero(valueA) = "panic" THEN Fail(d, "panic")
     ELSE IF ifz.a /\ isZero(valueA) = "zero" THEN d
     ELSE IF ifz.b /\ isZero(valueB) = "panic" THEN Fail(d, "panic")
     ELSE IF ifz.b /\ isZero(valueB) = "zero" THEN d
     ELSE Emit(d, SingleDiff(selector, JSON(valueA), JSON(valueB)))

lineB(d, mainSelector, sel, valueB) ==
  LET selector == joinSelectors(mainSelector, sel)
      shouldIgnoreB == shouldIgnore(d, selector).b
      shouldIgnoreIfZeroB == shouldIgnoreIfZero(d, selector).b
  IN IF shouldIgnoreB THEN d
     ELSE IF shouldIgnoreIfZeroB /\ isZero(valueB) = "panic" THEN Fail(d, "panic")
     ELSE IF shouldIgnoreIfZeroB /\ isZero(valueB) = "zero" THEN d
     ELSE Emit(d, SingleDiff(selector, "", JSON(valueB)))

\* objx.Map.Has: there is something other than nil at the key
Has(obj, key) == key \in DOMAIN obj /\ ~IsNil(obj[key])

\* objx.Map.Get
Get(obj, key) == IF key \in DOMAIN obj THEN obj[key] ELSE Null

----------------------------------------------------------------------------
(* The comparators *)

RECURSIVE diffValues(_, _, _, _)
RECURSIVE diffValuesCoerced(_, _, _, _, _, _)
RECURSIVE diffInterSlice(_, _, _, _)
RECURSIVE InterSliceLoopA(_, _, _, _, _)
RECURSIVE InterSliceLoopB(_, _, _, _, _)
RECURSIVE diffInterSliceDetectEquals(_, _, _, _)
RECURSIVE DetectLoopA(_, _, _, _, _, _)
RECURSIVE DetectLoopB(_, _, _, _, _, _, _)
RECURSIVE diffObjxMapSlice(_, _, _, _)
RECURSIVE MapSliceLoopA(_, _, _, _, _)
RECURSIVE MapSliceLoopB(_, _, _, _, _)
RECURSIVE diffMap(_, _, _, _)
RECURSIVE MapLoopA(_, _, _, _, _)
RECURSIVE MapLoopB(_, _, _, _, _)

\* A loop of the traversal takes the Differ as it stands and ends at once when
\* an iteration has left an error or a panic in it: the return err of the
\* code.

\* the switch of diffValues after skipTypeCheck; a case is reached when none
\* before it holds
ValuesSwitch(d, selector, valueA, valueB) ==
  CASE IsFloat64(valueA) \/ IsFloat64(valueB) ->
         LET floatA == mustFloat64(valueA)
             floatB == mustFloat64(valueB)
             fn == floatEqualFunc(d, selector)
         IN IF ~FloatEqualApply(fn, floatA, floatB)
            THEN lineAB(d, "", selector, JsonI(valueA, TRUE, fn), JsonI(valueB, TRUE, fn))
            ELSE d
    [] IsBool(valueA) /\ IsBool(valueB) ->
         IF valueA.b # valueB.b
         THEN lineAB(d, "", selector, JsonI(valueA, TRUE, "nil"), JsonI(valueB, TRUE, "nil"))
         ELSE d
    [] IsInt(valueA) /\ ~IsFloat64(valueB) ->
         IF valueA.n # valueB.n
         THEN lineAB(d, "", selector, JsonI(valueA, TRUE, "nil"), JsonI(valueB, TRUE, "nil"))
         ELSE d
    [] IsStr(valueA) ->
         IF valueA.s # valueB.s
         THEN lineAB(d, "", selector, JsonI(valueA, TRUE, "nil"), JsonI(valueB, TRUE, "nil"))
         ELSE d
    [] IsObjxMapSlice(valueA) ->
         \* valueB.MustObjxMapSlice() panics on a slice holding a non-map
         IF ~IsObjxMapSlice(valueB) THEN Fail(d, "panic")
         ELSE diffObjxMapSlice(d, selector, valueA.items, valueB.items)
    [] IsInterSlice(valueA) /\ ~IsObjxMapSlice(valueA) ->
         diffInterSlice(d, selector, valueA, valueB)
    [] IsObjxMap(valueA) ->
         diffMap(d, selector, valueA.fields, valueB.fields)
    [] OTHER -> Fail(d, "unsupported")

\* a faulty widening check: an int on side A with a float64 on side B does not
\* pass
skipTypeCheckIntB(valueA, valueB) ==
  (IsInt(valueA) \/ IsFloat64(valueA)) /\ IsInt(valueB)

\* "coerce ints and floats by default": the condition of goto skipTypeCheck
skipTypeCheck(valueA, valueB) ==
  (IsInt(valueA) \/ IsFloat64(valueA)) /\ (IsInt(valueB) \/ IsFloat64(valueB))

\* diffValues from the check of the types on; valueA and valueB are what
\* tryAsNumber has left of the values, Panicked where it panicked
diffValuesTyped(d, selector, valueA, valueB) ==
  IF valueA = Panicked \/ valueB = Panicked THEN Fail(d, "panic")
  ELSE IF ~skipTypeCheck(valueA, valueB) /\ TypeOf(valueA) # TypeOf(valueB)
  THEN lineAB(d, "", selector, JsonI(valueA, TRUE, "nil"), JsonI(valueB, TRUE, "nil"))
  ELSE ValuesSwitch(d, selector, valueA, valueB)

diffValues(d, selector, valueA, valueB) ==
  LET coerce == shouldCoerceNull(d, selector)
      convert == shouldConvertStringToNumber(d, selector)
  IN IF (coerce.a /\ IsNil(valueA)) \/ (coerce.b /\ IsNil(valueB))
     THEN diffValuesCoerced(d, selector, valueA, valueB, coerce.a, coerce.b)
     ELSE diffValuesTyped(d, selector,
                          IF convert THEN tryAsNumber(valueA) ELSE valueA,
                          IF convert THEN tryAsNumber(valueB) ELSE valueB)

diffValuesCoerced(d, selector, valueA, valueB, coerceA, coerceB) ==
  LET nilA == coerceA /\ IsNil(valueA)
      nilB == coerceB /\ IsNil(valueB)
      isFloat64 == /\ IsFloat64(valueA) \/ IsFloat64(valueB)
                   /\ IsFloat64(valueA) \/ IsInt(valueA) \/ nilA
                   /\ IsFloat64(valueB) \/ IsInt(valueB) \/ nilB
      isInt == (IsInt(valueA) \/ nilA) /\ (IsInt(valueB) \/ nilB)
      isStr == (IsStr(valueA) \/ nilA) /\ (IsStr(valueB) \/ nilB)
      isBool == (IsBool(valueA) \/ nilA) /\ (IsBool(valueB) \/ nilB)
      isInterSlice == (IsInterSlice(valueA) \/ nilA) /\ (IsInterSlice(valueB) \/ nilB)
      isObjxMap == (IsObjxMap(valueA) \/ nilA) /\ (IsObjxMap(valueB) \/ nilB)
  IN
  CASE isFloat64 ->
         LET floatA == IF coerceA THEN float64OrZero(valueA) ELSE mustFloat64(valueA)
             floatB == IF coerceB THEN float64OrZero(valueB) ELSE mustFloat64(valueB)
             fn == floatEqualFunc(d, selector)
         IN IF ~FloatEqualApply(fn, floatA, floatB)
            THEN lineAB(d, "", selector, JsonI(valueA, TRUE, fn), JsonI(valueB, TRUE, fn))
            ELSE d
    [] ~isFloat64 /\ isInt ->
         LET intA == IF IsInt(valueA) THEN valueA.n ELSE 0   \* Int(0) / MustInt
             intB == IF IsInt(valueB) THEN valueB.n ELSE 0
         IN IF intA # intB
            THEN lineAB(d, "", selector, JsonI(valueA, TRUE, "nil"), JsonI(valueB, TRUE, "nil"))
            ELSE d
    [] ~isFloat64 /\ ~isInt /\ isStr ->
         LET strA == IF IsStr(valueA) THEN valueA.s ELSE ""  \* Str("") / MustStr
             strB == IF IsStr(valueB) THEN valueB.s ELSE ""
         IN IF strA # strB
            THEN lineAB(d, "", selector, JsonI(valueA, TRUE, "nil"), JsonI(valueB, TRUE, "nil"))
            ELSE d
    [] ~isFloat64 /\ ~isInt /\ ~isStr /\ isBool ->
         LET boolA == IF IsBool(valueA) THEN valueA.b ELSE FALSE  \* Bool(false) / MustBool
             boolB == IF IsBool(valueB) THEN valueB.b ELSE FALSE
         IN IF boolA # boolB
            THEN lineAB(d, "", selector, JsonI(valueA, TRUE, "nil"), JsonI(valueB, TRUE, "nil"))
            ELSE d
    [] ~isFloat64 /\ ~isInt /\ ~isStr /\ ~isBool /\ isInterSlice ->
         diffInterSlice(d, selector,
                        IF IsNil(valueA) THEN ArrV(<<>>) ELSE valueA,
                        IF IsNil(valueB) THEN ArrV(<<>>) ELSE valueB)
    [] ~isFloat64 /\ ~isInt /\ ~isStr /\ ~isBool /\ ~isInterSlice /\ isObjxMap ->
         LET mA == IF IsObjxMap(valueA) THEN valueA.fields ELSE EmptyMap
             mB == IF IsObjxMap(valueB) THEN valueB.fields ELSE EmptyMap
         IN diffMap(d, selector, mA, mB)
    [] OTHER -> Fail(d, "unsupported")

\* for idx, a := range iSliceA
InterSliceLoopA(d, mainSelector, iSliceA, iSliceB, idx) ==
  IF d.err # "nil" \/ idx >= Len(iSliceA) THEN d
  ELSE
    LET a == iSliceA[idx + 1]
        selector == joinSelectors(mainSelector, IndexStep(idx))
    IN InterSliceLoopA(
         IF Len(iSliceB) <= idx
         THEN lineA(d, "", selector, JsonI(a, FALSE, floatEqualFunc(d, selector)))
         ELSE diffValues(d, selector, a, iSliceB[idx + 1]),
         mainSelector, iSliceA, iSliceB, idx + 1)

\* for idx := len(iSliceA); idx != len(iSliceB); idx++
InterSliceLoopB(d, mainSelector, iSliceA, iSliceB, idx) ==
  IF d.err # "nil" \/ idx >= Len(iSliceB) THEN d
  ELSE
    LET b == iSliceB[idx + 1]
        selector == joinSelectors(mainSelector, IndexStep(idx))
    IN InterSliceLoopB(
         lineB(d, "", selector, JsonI(b, FALSE, floatEqualFunc(d, selector))),
         mainSelector, iSliceA, iSliceB, idx + 1)

\* a faulty diffInterSlice: the patches of the sub-diff of the first element
\* of A and the last of B, which the check has run, are left in the Differ
InterSliceAfterDetectLeaky(d, mainSelector, valueA, valueB, detect) ==
  LET leaked ==
        IF shouldIgnoreOrder(d, mainSelector)
           /\ Len(valueA.items) > 0 /\ Len(valueB.items) > 0
        THEN diffValues(d, joinSelectors(mainSelector, IndexStep(0)),
                        valueA.items[1], valueB.items[Len(valueB.items)])
        ELSE d
  IN IF detect.err # "nil" THEN Fail(d, detect.err)
     ELSE IF detect.equal THEN d
     ELSE InterSliceLoopB(
            InterSliceLoopA(leaked, mainSelector, valueA.items, valueB.items, 0),
            mainSelector, valueA.items, valueB.items, Len(valueA.items))

\* diffInterSlice after the order-insensitive check: detect is what the check
\* returned, not equal and no error when no ignore-order rule asks for it
InterSliceAfterDetect(d, mainSelector, valueA, valueB, detect) ==
  IF detect.err # "nil" THEN Fail(d, detect.err)
  ELSE IF detect.equal THEN d
  ELSE InterSliceLoopB(
         InterSliceLoopA(d, mainSelector, valueA.items, valueB.items, 0),
         mainSelector, valueA.items, valueB.items, Len(valueA.items))

diffInterSlice(d, mainSelector, valueA, valueB) ==
  IF ~IsInterSlice(valueA) \/ ~IsInterSlice(valueB) THEN Fail(d, "mismatch")
  ELSE InterSliceAfterDetect(d, mainSelector, valueA, valueB,
         IF shouldIgnoreOrder(d, mainSelector)
         THEN diffInterSliceDetectEquals(d, mainSelector, valueA, valueB)
         ELSE [equal |-> FALSE, err |-> "nil"])

\* the end of one pass of the inner loop: sub is other after diffValues on a
\* and b.  st holds idxEqualA, idxEqualB and err
DetectPair(other, mainSelector, iSliceA, iSliceB, idxA, idxB, st, sub) ==
  IF sub.err # "nil" THEN [st EXCEPT !.err = sub.err]
  ELSE IF Len(sub.diff) = 0
  THEN [st EXCEPT !.idxEqualA = @ \cup {idxA}, !.idxEqualB = @ \cup {idxB}]
  ELSE DetectLoopB(other, mainSelector, iSliceA, iSliceB, idxA, idxB + 1, st)

\* a faulty inner loop: the elements of B are offered from the last to the
\* first
DetectLoopBLastFirst(other, mainSelector, iSliceA, iSliceB, idxA, idxB, st) ==
  LET last == Len(iSliceB) - 1 - idxB
      sub == diffValues(clone(other), joinSelectors(mainSelector, IndexStep(idxA)),
                        iSliceA[idxA + 1], iSliceB[last + 1])
  IN IF idxB >= Len(iSliceB) THEN st
     ELSE IF last \in st.idxEqualB
     THEN DetectLoopB(other, mainSelector, iSliceA, iSliceB, idxA, idxB + 1, st)
     ELSE IF sub.err # "nil" THEN [st EXCEPT !.err = sub.err]
     ELSE IF Len(sub.diff) = 0
     THEN [st EXCEPT !.idxEqualA = @ \cup {idxA}, !.idxEqualB = @ \cup {last}]
     ELSE DetectLoopB(other, mainSelector, iSliceA, iSliceB, idxA, idxB + 1, st)

\* the inner loop: for idxB, b := range iSliceB
DetectLoopB(other, mainSelector, iSliceA, iSliceB, idxA, idxB, st) ==
  IF idxB >= Len(iSliceB) THEN st
  ELSE IF idxB \in st.idxEqualB
  THEN DetectLoopB(other, mainSelector, iSliceA, iSliceB, idxA, idxB + 1, st)
  ELSE DetectPair(other, mainSelector, iSliceA, iSliceB, idxA, idxB, st,
         diffValues(clone(other), joinSelectors(mainSelector, IndexStep(idxA)),
                    iSliceA[idxA + 1], iSliceB[idxB + 1]))

\* idxEqualA.Add(idxA) at the end of a pass of the outer loop
DetectMarkA(st, idxA) ==
  IF st.err # "nil" THEN st ELSE [st EXCEPT !.idxEqualA = @ \cup {idxA}]

\* the outer loop: for idxA, a := range iSliceA
DetectLoopA(other, mainSelector, iSliceA, iSliceB, idxA, st) ==
  IF st.err # "nil" \/ idxA >= Len(iSliceA) THEN st
  ELSE DetectLoopA(other, mainSelector, iSliceA, iSliceB, idxA + 1,
         DetectMarkA(DetectLoopB(other, mainSelector, iSliceA, iSliceB, idxA, 0, st),
                     idxA))

\* what diffInterSliceDetectEquals returns once the loops have ended in st
DetectReturn(st, iSliceA, iSliceB) ==
  IF st.err # "nil" THEN [equal |-> FALSE, err |-> st.err]
  ELSE [equal |-> /\ Cardinality(st.idxEqualA) = Len(iSliceA)
                  /\ Cardinality(st.idxEqualB) = Len(iSliceB),
        err |-> "nil"]

diffInterSliceDetectEquals(d, mainSelector, valueA, valueB) ==
  IF ~IsInterSlice(valueA) \/ ~IsInterSlice(valueB)
  THEN [equal |-> FALSE, err |-> "mismatch"]
  ELSE DetectReturn(
         DetectLoopA(clone(d), mainSelector, valueA.items, valueB.items, 0,
                     [idxEqualA |-> {}, idxEqualB |-> {}, err |-> "nil"]),
         valueA.items, valueB.items)

\* for idx, a := range sliceA
MapSliceLoopA(d, mainSelector, sliceA, sliceB, idx) ==
  IF d.err # "nil" \/ idx >= Len(sliceA) THEN d
  ELSE
    LET a == sliceA[idx + 1]
        selector == joinSelectors(mainSelector, IndexStep(idx))
    IN MapSliceLoopA(
         IF Len(sliceB) <= idx
         THEN lineA(d, "", selector, JsonI(a, FALSE, floatEqualFunc(d, selector)))
         ELSE diffMap(d, selector, a.fields, sliceB[idx + 1].fields),
         mainSelector, sliceA, sliceB, idx + 1)

\* for idx := len(sliceA); idx != len(sliceB); idx++
MapSliceLoopB(d, mainSelector, sliceA, sliceB, idx) ==
  IF d.err # "nil" \/ idx >= Len(sliceB) THEN d
  ELSE
    LET b == sliceB[idx + 1]
        selector == joinSelectors(mainSelector, IndexStep(idx))
    IN MapSliceLoopB(
         lineB(d, "", selector, JsonI(b, FALSE, floatEqualFunc(d, selector))),
         mainSelector, sliceA, sliceB, idx + 1)

diffObjxMapSlice(d, mainSelector, sliceA, sliceB) ==
  MapSliceLoopB(MapSliceLoopA(d, mainSelector, sliceA, sliceB, 0),
                mainSelector, sliceA, sliceB, Len(sliceA))

\* a faulty loop: it goes on to the next key after an error
MapLoopAContinuing(d, mainSelector, objA, objB, keys) ==
  IF d.err = "panic" \/ keys = <<>> THEN d
  ELSE
    LET keyA == Head(keys)
        valueA == Get(objA, keyA)
        selector == joinSelectors(mainSelector, keyA)
    IN MapLoopA(
         IF ~Has(objB, keyA)
         THEN lineA(d, "", selector, JsonI(valueA, TRUE, floatEqualFunc(d, selector)))
         ELSE diffValues(d, selector, valueA, Get(objB, keyA)),
         mainSelector, objA, objB, Tail(keys))

\* for _, keyA := range sortedKeys(objA); keys are the keys still to visit
MapLoopA(d, mainSelector, objA, objB, keys) ==
  IF d.err # "nil" \/ keys = <<>> THEN d
  ELSE
    LET keyA == Head(keys)
        valueA == Get(objA, keyA)
        selector == joinSelectors(mainSelector, keyA)
    IN MapLoopA(
         IF ~Has(objB, keyA)
         THEN lineA(d, "", selector, JsonI(valueA, TRUE, floatEqualFunc(d, selector)))
         ELSE diffValues(d, selector, valueA, Get(objB, keyA)),
         mainSelector, objA, objB, Tail(keys))

\* a faulty loop: the keys of objB alone give no patch
MapLoopBSilent(d, mainSelector, objA, objB, keys) == d

\* for _, keyB := range sortedKeys(objB), the keys of objA being visited
MapLoopB(d, mainSelector, objA, objB, keys) ==
  IF d.err # "nil" \/ keys = <<>> THEN d
  ELSE
    LET keyB == Head(keys)
        selector == joinSelectors(mainSelector, keyB)
    IN MapLoopB(
         IF keyB \in DOMAIN objA THEN d
         ELSE lineB(d, "", selector,
                    JsonI(Get(objB, keyB), TRUE, floatEqualFunc(d, selector))),
         mainSelector, objA, objB, Tail(keys))

diffMap(d, mainSelector, objA, objB) ==
  MapLoopB(MapLoopA(d, mainSelector, objA, objB, sortedKeys(objA, d.range)),
           mainSelector, objA, objB, sortedKeys(objB, d.range))

\* what Differ.Diff returns once the traversal has ended in d2 (a panic
\* returns nothing; the model shows it as err = "panic")
DiffReturn(d2) ==
  [lines |-> IF d2.err = "panic" THEN <<>> ELSE d2.diff, err |-> d2.err]

\* Differ.Diff on two parsed documents, in a run that ranges over its maps
\* in the given order: the DiffList and the error
DiffRanged(rA, rB, objA, objB, range) ==
  DiffReturn(diffMap([NewRun(rA, rB) EXCEPT !.range = range], "",
                     objA.fields, objB.fields))

\* Differ.Diff in a run that ranges in ascending order
DiffResult(rA, rB, objA, objB) == DiffRanged(rA, rB, objA, objB, "up")

----------------------------------------------------------------------------
(* The inputs the operations are called with *)

RuleA == "RuleA"
RuleB == "RuleB"
RuleAB == "RuleAB"
Dests == {RuleA, RuleB, RuleAB}

Selectors == {ReAny, ReLit("b")}
FloatEqualFuncs == {"half", "one"}

Doc1(k, v) == ObjV([x \in {k} |-> v])

Scalars ==
  {Null, BoolV(FALSE), BoolV(TRUE), IntV(0), IntV(1), FloatV(1), StrV(""), StrV("1")}

\* {"a": v}, v a scalar, [] or {}
FlatDocs == {Doc1("a", v) : v \in Scalars \cup {ArrV(<<>>), ObjV(EmptyMap)}}

SeqsUpTo(S, n) == UNION {[1..m -> S] : m \in 0..n}

\* {"a": [...]}: arrays of integers up to MaxLen long, and arrays holding a
\* null, an array, objects, a float
Elems == {IntV(0), IntV(1)}
OddArrays ==
  {<<Null>>, <<ArrV(<<>>)>>, <<Doc1("b", IntV(0))>>,
   <<Doc1("b", IntV(0)), Doc1("b", IntV(1))>>,
   <<Doc1("b", IntV(1)), Doc1("b", IntV(0))>>,
   <<FloatV(1)>>, <<FloatV(1), IntV(0)>>, <<ArrV(<<IntV(0)>>)>>,
   <<ArrV(<<IntV(1)>>)>>}
ArrayDocs == {Doc1("a", ArrV(s)) : s \in SeqsUpTo(Elems, MaxLen) \cup OddArrays}

\* objects over the keys a and b
Fields == {Null, IntV(0), IntV(1)}
KeyDocs == {ObjV(f) : f \in UNION {[K -> Fields] : K \in SUBSET {"a", "b"}}}

\* {"a": {...}}: an object in an object
Nested == {IntV(0), IntV(1)}
NestedDocs ==
  {Doc1("a", ObjV(f)) : f \in UNION {[K -> Nested] : K \in SUBSET {"a", "b"}}}

\* {"a": {"b": {"c": n}}}: three levels
DeepDocs == {Doc1("a", Doc1("b", Doc1("c", IntV(n)))) : n \in {0, 1}}

\* objects over the keys a, ab and b, every value of the left one differing
\* from every value of the right one
OrderKeys == {"a", "ab", "b"}
OrderPairs ==
  {<<ObjV([k \in KA |-> IntV(0)]), ObjV([k \in KB |-> IntV(1)])>> :
     KA \in SUBSET OrderKeys, KB \in SUBSET OrderKeys}

\* {"a": v}: an array, an object and an array of objects with children, a
\* number and a string
MixedDocs ==
  {Doc1("a", v) : v \in {ArrV(<<IntV(0)>>), Doc1("b", IntV(0)),
                         ArrV(<<Doc1("b", IntV(0))>>), IntV(42), StrV("a")}}

\* {"a": n}: integers and floats
Numbers == {IntV(0), IntV(1), IntV(2), FloatV(1), FloatV(3)}
NumberDocs == {Doc1("a", v) : v \in Numbers}

\* {"a": v}: strings that denote numbers, one that does not, and numbers
StringValues == {StrV("1"), StrV("0.5"), StrV("01"), StrV("a"), IntV(1), FloatV(1)}
StringDocs == {Doc1("a", v) : v \in StringValues}

Inputs ==
  (FlatDocs \X FlatDocs) \cup (ArrayDocs \X ArrayDocs)
    \cup (KeyDocs \X KeyDocs) \cup (NestedDocs \X NestedDocs)
    \cup (DeepDocs \X DeepDocs) \cup OrderPairs
    \cup (MixedDocs \X MixedDocs) \cup (MixedDocs \X FlatDocs)
    \cup (NumberDocs \X NumberDocs) \cup (StringDocs \X StringDocs)

----------------------------------------------------------------------------
(* The state machine *)

\* the library used without the command
NoCli ==
  [pc |-> "off", ignoreB |-> "", sortAll |-> "", nargs |-> 0, readable |-> "",
   status |-> -1, printed |-> <<>>]

NoCall == [made |-> FALSE, rulesA |-> <<>>, rulesB |-> <<>>, lines |-> <<>>, err |-> "nil"]

\* NewDiffer, and the two documents at hand
Init ==
  /\ rulesA = <<>>
  /\ rulesB = <<>>
  /\ diff = <<>>
  /\ \E in \in Inputs : jsonA = in[1] /\ jsonB = in[2]
  /\ call = NoCall
  /\ cli = NoCli

addRule(dest, rule) ==
  /\ Len(rulesA) + Len(rulesB) < MaxRules
  /\ rulesA' = IF dest \in {RuleA, RuleAB} THEN Append(rulesA, rule) ELSE rulesA
  /\ rulesB' = IF dest \in {RuleB, RuleAB} THEN Append(rulesB, rule) ELSE rulesB
  /\ UNCHANGED <<diff, jsonA, jsonB, call, cli>>

AddCoerceNull(dest, selector) == addRule(dest, Rule(selector, "coercenull", "nil"))
AddIgnore(dest, selector) == addRule(dest, Rule(selector, "ignore", "nil"))
AddIgnoreIfZero(dest, selector) == addRule(dest, Rule(selector, "ignoreIfZero", "nil"))
AddFloatEqual(selector, fn) == addRule(RuleAB, Rule(selector, "floatEqual", fn))
AddIgnoreOrder(selector) == addRule(RuleAB, Rule(selector, "ignoreOrder", "nil"))
AddStringNumber(selector) == addRule(RuleAB, Rule(selector, "stringNumber", "nil"))

\* d.Diff(jsonA, jsonB): the call runs on d2, a Differ of its own
Called(rA, rB, r) ==
  [made |-> TRUE, rulesA |-> rA, rulesB |-> rB, lines |-> r.lines, err |-> r.err]

\* the most keys an object of the value holds
RECURSIVE Width(_)
Width(v) ==
  CASE v.kind = "Object" ->
         LET below == {Width(v.fields[k]) : k \in DOMAIN v.fields}
             wide == Cardinality(DOMAIN v.fields)
         IN CHOOSE w \in below \cup {wide} : \A x \in below \cup {wide} : x <= w
    [] v.kind = "Array" ->
         LET below == {Width(v.items[i]) : i \in 1..Len(v.items)} \cup {0}
         IN CHOOSE w \in below : \A x \in below : x <= w
    [] OTHER -> 0

\* the orders a run over the two documents can tell apart: one when no
\* object holds two keys
Ranges(objA, objB) ==
  IF Width(objA) <= 1 /\ Width(objB) <= 1 THEN {"up"} ELSE Iterations

Diff ==
  /\ \E range \in Ranges(jsonA, jsonB) :
       call' = Called(rulesA, rulesB, DiffRanged(rulesA, rulesB, jsonA, jsonB, range))
  /\ UNCHANGED <<rulesA, rulesB, diff, jsonA, jsonB, cli>>

Next ==
  \/ \E dest \in Dests, selector \in Selectors : AddCoerceNull(dest, selector)
  \/ \E dest \in Dests, selector \in Selectors : AddIgnore(dest, selector)
  \/ \E dest \in Dests, selector \in Selectors : AddIgnoreIfZero(dest, selector)
  \/ \E selector \in Selectors, fn \in FloatEqualFuncs : AddFloatEqual(selector, fn)
  \/ \E selector \in Selectors : AddIgnoreOrder(selector)
  \/ \E selector \in Selectors : AddStringNumber(selector)
  \/ Diff

Spec == Init /\ [][Next]_vars

----------------------------------------------------------------------------
(* A Differ called with objects of several keys *)

RangeInputs == (KeyDocs \X KeyDocs) \cup (NestedDocs \X NestedDocs) \cup OrderPairs

InitRange ==
  /\ rulesA = <<>>
  /\ rulesB = <<>>
  /\ diff = <<>>
  /\ \E in \in RangeInputs : jsonA = in[1] /\ jsonB = in[2]
  /\ call = NoCall
  /\ cli = NoCli

SpecRange == InitRange /\ [][Next]_vars

----------------------------------------------------------------------------
(* A Differ with a chain of float-equal rules *)

\* {"a": n} and {"b": n}: numbers 0.5, 1, 1.5 and 2.5, under the same key on
\* both sides
FloatNumbers == {IntV(1), FloatV(1), FloatV(3), FloatV(5)}
FloatInputs ==
  {<<Doc1(k, v), Doc1(k, w)>> : k \in {"a", "b"}, v \in FloatNumbers, w \in FloatNumbers}

InitFloat ==
  /\ rulesA = <<>>
  /\ rulesB = <<>>
  /\ diff = <<>>
  /\ \E in \in FloatInputs : jsonA = in[1] /\ jsonB = in[2]
  /\ call = NoCall
  /\ cli = NoCli

\* d.AddFloatEqual(selector, fn) on a Differ that may hold float-equal rules
\* already: addRule(RuleAB, ...) appends to both lists
AddFloatEqualChained(selector, fn) ==
  /\ Len(rulesA) < MaxFloatRules
  /\ rulesA' = Append(rulesA, Rule(selector, "floatEqual", fn))
  /\ rulesB' = Append(rulesB, Rule(selector, "floatEqual", fn))
  /\ UNCHANGED <<diff, jsonA, jsonB, call, cli>>

NextFloat ==
  \/ \E selector \in Selectors, fn \in FloatEqualFuncs : AddFloatEqualChained(selector, fn)
  \/ Diff

SpecFloat == InitFloat /\ [][NextFloat]_vars

----------------------------------------------------------------------------
(* A Differ with float-equal and ignore-order rules, called with arrays of *)
(* numbers                                                                 *)

\* {"a": [x, y]}: the numbers 0.5, 1 and 1.5
GreedyNumbers == {FloatV(1), IntV(1), FloatV(3)}
GreedyDocs == {Doc1("a", ArrV(<<x, y>>)) : x \in GreedyNumbers, y \in GreedyNumbers}

InitGreedy ==
  /\ rulesA = <<>>
  /\ rulesB = <<>>
  /\ diff = <<>>
  /\ \E in \in GreedyDocs \X GreedyDocs : jsonA = in[1] /\ jsonB = in[2]
  /\ call = NoCall
  /\ cli = NoCli

\* d.AddIgnoreOrder(selector) on a Differ that may hold rules already
AddIgnoreOrderChained(selector) ==
  /\ Len(rulesA) < MaxFloatRules
  /\ rulesA' = Append(rulesA, Rule(selector, "ignoreOrder", "nil"))
  /\ rulesB' = Append(rulesB, Rule(selector, "ignoreOrder", "nil"))
  /\ UNCHANGED <<diff, jsonA, jsonB, call, cli>>

NextGreedy ==
  \/ \E selector \in Selectors, fn \in FloatEqualFuncs : AddFloatEqualChained(selector, fn)
  \/ \E selector \in Selectors : AddIgnoreOrderChained(selector)
  \/ Diff

SpecGreedy == InitGreedy /\ [][NextGreedy]_vars

----------------------------------------------------------------------------
(* A Differ called with documents that hold a null in an array *)

\* {"a": v, "b": w}: integers, arrays with a null alone or after an
\* integer, an object holding such an array
ErrorValues ==
  {IntV(0), IntV(1), ArrV(<<Null>>), ArrV(<<IntV(0), Null>>), ArrV(<<IntV(1), Null>>),
   Doc1("c", ArrV(<<Null>>))}
ErrorLast == {IntV(0), IntV(1), ArrV(<<Null>>)}
ErrorDocs == {ObjV([a |-> v, b |-> w]) : v \in ErrorValues, w \in ErrorLast}

InitError ==
  /\ rulesA = <<>>
  /\ rulesB = <<>>
  /\ diff = <<>>
  /\ \E in \in ErrorDocs \X ErrorDocs : jsonA = in[1] /\ jsonB = in[2]
  /\ call = NoCall
  /\ cli = NoCli

SpecError == InitError /\ [][Next]_vars

----------------------------------------------------------------------------
(* The command jf a.json b.json: main, from the flags to the exit status.  *)
(* jsonA and jsonB are what the two files hold.                            *)

exitNoDiff == 0
exitDiff == 1
exitTroubles == 2

\* a flag that is not given, a pattern regexp.Compile rejects, a file whose
\* text is no JSON object
NoFlag == [kind |-> "none"]
InvalidPattern == [kind |-> "invalid"]
Malformed == [kind |-> "Malformed"]

CliFiles ==
  {Malformed, Doc1("a", IntV(0)), Doc1("a", IntV(1)), Doc1("b", IntV(0)),
   Doc1("a", ArrV(<<>>)),
   ObjV([a |-> IntV(0), b |-> ArrV(<<Null>>)]), ObjV([a |-> IntV(1), b |-> ArrV(<<Null>>)])}

InitCLI ==
  /\ rulesA = <<>>
  /\ rulesB = <<>>
  /\ diff = <<>>
  /\ jsonA \in CliFiles /\ jsonB \in CliFiles
  /\ call = NoCall
  /\ cli = [NoCli EXCEPT !.pc = "flags"]

\* os.Exit(status)
Exit(c, status) == [c EXCEPT !.pc = "exit", !.status = status]

\* flag.Parse and makeRules: -x-ignore-b, and -x-sort-all-selector with
\* -x-sort-all-key (a pattern that compiles registers an order-by-key rule,
\* which the Differ does not hold: the flag is absent or does not compile)
MakeRules(ignoreB, sortAllBySelector) ==
  /\ cli.pc = "flags"
  /\ rulesB' = IF ignoreB \in {NoFlag, InvalidPattern} THEN rulesB
                ELSE Append(rulesB, Rule(ignoreB, "ignore", "nil"))
  /\ cli' = LET c == [cli EXCEPT !.ignoreB = ignoreB.kind, !.sortAll = sortAllBySelector.kind]
            IN IF ignoreB = InvalidPattern \/ sortAllBySelector = InvalidPattern
               THEN Exit(c, exitTroubles)
               ELSE [c EXCEPT !.pc = "args"]
  /\ UNCHANGED <<rulesA, diff, jsonA, jsonB, call>>

\* if len(flag.Args()) != 2
CheckArgs(nargs) ==
  /\ cli.pc = "args"
  /\ cli' = LET c == [cli EXCEPT !.nargs = nargs]
            IN IF nargs # 2 THEN Exit(c, exitTroubles) ELSE [c EXCEPT !.pc = "files"]
  /\ UNCHANGED <<rulesA, rulesB, diff, jsonA, jsonB, call>>

\* js(flag.Arg(0), flag.Arg(1)): ioutil.ReadFile of one, then of the other
ReadFiles(readableA, readableB) ==
  /\ cli.pc = "files"
  /\ cli' = IF readableA /\ readableB
            THEN [cli EXCEPT !.readable = "yes", !.pc = "diff"]
            ELSE Exit([cli EXCEPT !.readable = "no"], exitTroubles)
  /\ UNCHANGED <<rulesA, rulesB, diff, jsonA, jsonB, call>>

\* Differ.Diff on the two texts: objx.FromJSON of each, then the traversal
DiffText(rA, rB, textA, textB) ==
  IF textA = Malformed \/ textB = Malformed
  THEN [lines |-> <<>>, err |-> "syntax"]
  ELSE DiffResult(rA, rB, textA, textB)

\* diff, err := d.Diff(jsA, jsB), the lines written, the exit; a Go program
\* that a panic ends exits with 2
RunDiff ==
  /\ cli.pc = "diff"
  /\ call' = Called(rulesA, rulesB, DiffText(rulesA, rulesB, jsonA, jsonB))
  /\ cli' = IF call'.err = "panic" THEN Exit(cli, 2)
            ELSE IF Len(call'.lines) = 0 THEN Exit(cli, exitNoDiff)
            ELSE Exit([cli EXCEPT !.printed = call'.lines], exitDiff)
  /\ UNCHANGED <<rulesA, rulesB, diff, jsonA, jsonB>>

NextCLI ==
  \/ \E ignoreB \in {NoFlag, InvalidPattern} \cup Selectors,
        sortAllBySelector \in {NoFlag, InvalidPattern} :
        MakeRules(ignoreB, sortAllBySelector)
  \/ \E nargs \in 1..MaxArgs : CheckArgs(nargs)
  \/ \E readableA \in BOOLEAN, readableB \in BOOLEAN : ReadFiles(readableA, readableB)
  \/ RunDiff

SpecCLI == InitCLI /\ [][NextCLI]_vars

----------------------------------------------------------------------------
(* Custom-equal rules.  TestCustomEqual calls AddCustomEqual, which the    *)
(* source at hand does not hold; the definitions of this section follow    *)
(* the specification's step "custom-equal override" and the test, for      *)
(* rules that concern the fields of the top-level object.                  *)

\* the predicates: near, as the test's: true at the selector b for two ints
\* less than 2 apart; always: true
CustomEqualFuncs == {"near", "always"}

CustomEqualApply(fn, selector, valueA, valueB) ==
  CASE fn = "near" ->
         /\ selector = "b"
         /\ IsInt(valueA) /\ IsInt(valueB)
         /\ Abs(valueA.n - valueB.n) < 2
    [] fn = "always" -> TRUE

CustomRule(selector, fn) ==
  [selector |-> selector, action |-> "customEqual", floatEqualFunc |-> "nil",
   customEqualFunc |-> fn]

\* a faulty customEqualFunc: the last matching rule wins
customEqualFuncLast(d, selector) ==
  LET hits == {i \in 1..Len(d.rulesA) :
                 d.rulesA[i].action = "customEqual" /\ match(d.rulesA[i], selector)}
  IN IF hits = {} THEN "nil"
     ELSE d.rulesA[CHOOSE i \in hits : \A j \in hits : i >= j].customEqualFunc

\* the predicate of the first custom-equal rule matching the selector, "nil"
\* when there is none
customEqualFunc(d, selector) ==
  LET hits == {i \in 1..Len(d.rulesA) :
                 d.rulesA[i].action = "customEqual" /\ match(d.rulesA[i], selector)}
  IN IF hits = {} THEN "nil"
     ELSE d.rulesA[CHOOSE i \in hits : \A j \in hits : i <= j].customEqualFunc

\* the comparison of two values with the custom-equal step in its place:
\* after null coercion and string-number coercion, before numeric widening
diffValuesCustom(d, selector, valueA, valueB) ==
  LET coerce == shouldCoerceNull(d, selector)
      convert == shouldConvertStringToNumber(d, selector)
      fn == customEqualFunc(d, selector)
      numA == IF convert THEN tryAsNumber(valueA) ELSE valueA
      numB == IF convert THEN tryAsNumber(valueB) ELSE valueB
  IN IF \/ (coerce.a /\ IsNil(valueA)) \/ (coerce.b /\ IsNil(valueB))
        \/ fn = "nil"
     THEN diffValues(d, selector, valueA, valueB)
     ELSE IF numA = Panicked \/ numB = Panicked THEN Fail(d, "panic")
     ELSE IF CustomEqualApply(fn, selector, numA, numB) THEN d
     ELSE lineAB(d, "", selector, JsonI(valueA, TRUE, "nil"), JsonI(valueB, TRUE, "nil"))

\* the first loop of diffMap over the top-level object
RECURSIVE CustomLoopA(_, _, _, _)
CustomLoopA(d, objA, objB, keys) ==
  IF d.err # "nil" \/ keys = <<>> THEN d
  ELSE
    LET keyA == Head(keys)
    IN CustomLoopA(
         IF ~Has(objB, keyA)
         THEN lineA(d, "", keyA, JsonI(Get(objA, keyA), TRUE, floatEqualFunc(d, keyA)))
         ELSE diffValuesCustom(d, keyA, Get(objA, keyA), Get(objB, keyA)),
         objA, objB, Tail(keys))

DiffCustomResult(rA, rB, objA, objB) ==
  DiffReturn(MapLoopB(CustomLoopA(NewRun(rA, rB), objA.fields, objB.fields,
                                  sortedKeys(objA.fields, "up")),
                      "", objA.fields, objB.fields, sortedKeys(objB.fields, "up")))

\* {"a": v} and {"b": v}: ints and objects with a child, under the same key
\* on both sides
CustomValues == {IntV(0), IntV(1), IntV(3), Doc1("c", IntV(0)), Doc1("c", IntV(1))}
CustomInputs ==
  {<<Doc1(k, v), Doc1(k, w)>> : k \in {"a", "b"}, v \in CustomValues, w \in CustomValues}

InitCustom ==
  /\ rulesA = <<>>
  /\ rulesB = <<>>
  /\ diff = <<>>
  /\ \E in \in CustomInputs : jsonA = in[1] /\ jsonB = in[2]
  /\ call = NoCall
  /\ cli = NoCli

\* d.AddCustomEqual(selector, fn): a rule of both sides
AddCustomEqual(selector, fn) ==
  /\ Len(rulesA) < MaxCustomRules
  /\ rulesA' = Append(rulesA, CustomRule(selector, fn))
  /\ rulesB' = Append(rulesB, CustomRule(selector, fn))
  /\ UNCHANGED <<diff, jsonA, jsonB, call, cli>>

DiffCustom ==
  /\ call' = Called(rulesA, rulesB, DiffCustomResult(rulesA, rulesB, jsonA, jsonB))
  /\ UNCHANGED <<rulesA, rulesB, diff, jsonA, jsonB, cli>>

NextCustom ==
  \/ \E selector \in Selectors, fn \in CustomEqualFuncs : AddCustomEqual(selector, fn)
  \/ DiffCustom

SpecCustom == InitCustom /\ [][NextCustom]_vars

----------------------------------------------------------------------------
(* Properties *)

\* the rules a call ran under, as the Differ of the run
CallRun == NewRun(call.rulesA, call.rulesB)

\* rules of the action, on either side, under which the call ran
CallHas(action) ==
  \/ \E i \in 1..Len(call.rulesA) : call.rulesA[i].action = action
  \/ \E i \in 1..Len(call.rulesB) : call.rulesB[i].action = action

\* no rule of the call drops a patch on its way into the list
NothingSuppressed == ~CallHas("ignore") /\ ~CallHas("ignoreIfZero")

LeftOnly(line) == line.valueA # "" /\ line.valueB = ""
RightOnly(line) == line.valueA = "" /\ line.valueB # ""
BothSides(line) == line.valueA # "" /\ line.valueB # ""

Lines == {call.lines[i] : i \in 1..Len(call.lines)}

\* both documents are {"a": [...]}
ArraysAtA ==
  /\ DOMAIN jsonA.fields = {"a"} /\ DOMAIN jsonB.fields = {"a"}
  /\ IsInterSlice(jsonA.fields["a"]) /\ IsInterSlice(jsonB.fields["a"])
ItemsA == jsonA.fields["a"].items
ItemsB == jsonB.fields["a"].items

\* C1: Reflexivity: Diff(x, x, R) returns success with an empty PatchList,
\* for every tree x and every rule set R.
C1_Reflexivity ==
  (call.made /\ jsonA = jsonB) => (call.err = "nil" /\ call.lines = <<>>)

\* C2: For trees whose nodes are all of the seven kinds Diff never returns
\* the unsupported-type error.
C2_NoUnsupportedType == call.made => call.err # "unsupported"

\* C3: Under an ignore-order rule two arrays of different lengths are never
\* deemed equal: the array subtree emits something.
C3_LengthsDifferNeverEqual ==
  ( /\ call.made /\ ArraysAtA /\ NothingSuppressed
    /\ shouldIgnoreOrder(CallRun, "a")
    /\ Len(ItemsA) # Len(ItemsB) )
  => ~(call.err = "nil" /\ call.lines = <<>>)

\* the sub-diff of A[i] and B[j] as the order-insensitive check runs it, at
\* the selector of A's index, is empty
SubDiffEmpty(i, j) ==
  LET sub == diffValues(CallRun, joinSelectors("a", IndexStep(i - 1)), ItemsA[i], ItemsB[j])
  IN sub.err = "nil" /\ sub.diff = <<>>

PermsOf(n) == {p \in [1..n -> 1..n] : \A i, j \in 1..n : p[i] = p[j] => i = j}

PairingExists ==
  /\ Len(ItemsA) = Len(ItemsB)
  /\ \E p \in PermsOf(Len(ItemsA)) : \A i \in 1..Len(ItemsA) : SubDiffEmpty(i, p[i])

\* no element has two candidates, so no early claim can block a later one
PairingUnambiguous ==
  /\ \A i \in 1..Len(ItemsA) : Cardinality({j \in 1..Len(ItemsB) : SubDiffEmpty(i, j)}) <= 1
  /\ \A j \in 1..Len(ItemsB) : Cardinality({i \in 1..Len(ItemsA) : SubDiffEmpty(i, j)}) <= 1

\* C4: For arrays of equal length under an ignore-order rule Diff emits no
\* patch iff a permutation pairs every A[i] with a B[p(i)] of empty sub-diff
\* (where first-fit pairing cannot go wrong: no element has two candidates).
C4_OrderInsensitive ==
  ( /\ call.made /\ ArraysAtA /\ NothingSuppressed
    /\ shouldIgnoreOrder(CallRun, "a")
    /\ Len(ItemsA) = Len(ItemsB)
    /\ PairingUnambiguous )
  => ((call.err = "nil" /\ call.lines = <<>>) <=> PairingExists)

\* C5: At the top object level the selectors of the left-only patches are
\* exactly the keys only in A, those of the right-only patches exactly the
\* keys only in B; a key of both gives neither.
C5_KeySetSymmetricDifference ==
  (call.made /\ call.err = "nil" /\ NothingSuppressed)
  => LET keysA == DOMAIN jsonA.fields
         keysB == DOMAIN jsonB.fields
     IN /\ {l.selector : l \in {x \in Lines : LeftOnly(x)}} \cap (keysA \cup keysB)
             = keysA \ keysB
        /\ {l.selector : l \in {x \in Lines : RightOnly(x)}} \cap (keysA \cup keysB)
             = keysB \ keysA

\* the first step of a selector: the text before its first "." or "["
FirstStep(selector) ==
  LET stops == {i \in 1..Len(selector) : Char(selector, i) \in {".", "["}}
  IN IF stops = {} THEN selector
     ELSE SubSeq(selector, 1, (CHOOSE i \in stops : \A j \in stops : i <= j) - 1)

\* the patches of the call below the object at the selector, in order
IsUnder(prefix, line) == prefix = "" \/ HasPrefix(line.selector, prefix \o ".")
Under(prefix) ==
  LET at == {i \in 1..Len(call.lines) : IsUnder(prefix, call.lines[i])}
      RECURSIVE Pick(_)
      Pick(i) == IF i > Len(call.lines) THEN <<>>
                 ELSE (IF i \in at THEN <<call.lines[i]>> ELSE <<>>) \o Pick(i + 1)
  IN Pick(1)

\* the key of the level a patch below the object at the selector belongs to
KeyBelow(prefix, line) ==
  FirstStep(IF prefix = "" THEN line.selector
            ELSE SubSeq(line.selector, Len(prefix) + 2, Len(line.selector)))

\* the patches of one object level come in the order of the claim: the keys of
\* objA ascending, a left-only patch at a key standing alone; then the keys
\* only in objB ascending, each with one right-only patch at the key
LevelOrdered(prefix, objA, objB) ==
  LET ls == Under(prefix)
      key(i) == KeyBelow(prefix, ls[i])
      atKey(i) == ls[i].selector = joinSelectors(prefix, key(i))
      inA(i) == key(i) \in DOMAIN objA
  IN /\ \A i, j \in 1..Len(ls) : i < j =>
          /\ inA(j) => inA(i)
          /\ (inA(i) /\ inA(j)) => (key(i) = key(j) \/ StrLess(key(i), key(j)))
          /\ (~inA(i) /\ ~inA(j)) => StrLess(key(i), key(j))
          /\ (key(i) = key(j) /\ atKey(i)) => ~LeftOnly(ls[i])
          /\ (key(i) = key(j) /\ atKey(j)) => ~LeftOnly(ls[j])
     /\ \A i \in 1..Len(ls) :
          ~inA(i) => (key(i) \in DOMAIN objB /\ atKey(i) /\ RightOnly(ls[i]))

\* both documents hold an object at the key a
ObjectsAtA ==
  /\ "a" \in DOMAIN jsonA.fields /\ "a" \in DOMAIN jsonB.fields
  /\ IsObjxMap(jsonA.fields["a"]) /\ IsObjxMap(jsonB.fields["a"])

\* C6: At one object level the patches come first for the keys of A in
\* ascending order (the left-only patch of a key, or the patches of recursing
\* into it), and only then the right-only patches of the keys only in B, in
\* ascending order.
C6_PatchOrdering ==
  call.made =>
    /\ LevelOrdered("", jsonA.fields, jsonB.fields)
    /\ ObjectsAtA =>
         LevelOrdered("a", jsonA.fields["a"].fields, jsonB.fields["a"].fields)

\* a patch of a key of A after which comes a right-only patch of a smaller key
C6_Witness ==
  /\ call.made /\ call.err = "nil" /\ Len(call.lines) = 3
  /\ call.lines[1] = SingleDiff("ab", "0", "1")
  /\ call.lines[2] = SingleDiff("b", "0", "")
  /\ call.lines[3] = SingleDiff("a", "", "1")

\* the nodes of a tree below the node at the selector, each with its path as
\* the claim builds it: a field step appends ".name" ("name" at the root), an
\* index step "[i]"
RECURSIVE Nodes(_, _)
Nodes(s, v) ==
  CASE v.kind = "Object" ->
         UNION {LET p == IF s = "" THEN k ELSE s \o "." \o k
                IN {<<p, v.fields[k]>>} \cup Nodes(p, v.fields[k]) : k \in DOMAIN v.fields}
    [] v.kind = "Array" ->
         UNION {LET p == s \o "[" \o ToString(i - 1) \o "]"
                IN {<<p, v.items[i]>>} \cup Nodes(p, v.items[i]) : i \in 1..Len(v.items)}
    [] OTHER -> {}

\* the side of a patch that has a value names a node of that side's document,
\* and (no text being read as a number) shows that node
PointsAt(selector, text, doc) ==
  text # "" =>
    \E pn \in Nodes("", doc) :
      /\ pn[1] = selector
      /\ ~CallHas("stringNumber") => text = Marshal(pn[2])

\* C7: Every patch's selector is the path from the root to the differing
\* node: a field step appends ".name" (just "name" at the root), an index
\* step appends "[i]" with no separator.
C7_SelectorFormat ==
  call.made =>
    \A line \in Lines :
      /\ PointsAt(line.selector, line.valueA, jsonA)
      /\ PointsAt(line.selector, line.valueB, jsonB)

\* patches at a field of an array element
C7_Witness ==
  /\ call.made /\ call.err = "nil"
  /\ SingleDiff("a[0].b", "0", "1") \in Lines
  /\ SingleDiff("a[1].b", "1", "0") \in Lines

\* the patches of the call at the index of the array at a
AtIndex(idx) ==
  {k \in 1..Len(call.lines) : call.lines[k].selector = joinSelectors("a", IndexStep(idx))}

\* C8: Positional array diff, no rule registered: every index of A at or
\* beyond the length of B gives exactly one left-only patch at a[i], every
\* index of B at or beyond the length of A exactly one right-only patch, in
\* ascending order of the indexes.
C8_PositionalArrayDiff ==
  (call.made /\ ArraysAtA /\ call.rulesA = <<>> /\ call.rulesB = <<>>) =>
    /\ \A idx \in Len(ItemsB)..(Len(ItemsA) - 1) :
         /\ Cardinality(AtIndex(idx)) = 1
         /\ \A k \in AtIndex(idx) : LeftOnly(call.lines[k])
    /\ \A idx \in Len(ItemsA)..(Len(ItemsB) - 1) :
         /\ Cardinality(AtIndex(idx)) = 1
         /\ \A k \in AtIndex(idx) : RightOnly(call.lines[k])
    /\ \A i, j \in 0..(Len(ItemsA) + Len(ItemsB)) :
         i < j => \A k \in AtIndex(i), l \in AtIndex(j) : k < l

\* every rule the call ran under is a coerce-null rule
CoerceOnly ==
  /\ \A i \in 1..Len(call.rulesA) : call.rulesA[i].action = "coercenull"
  /\ \A i \in 1..Len(call.rulesB) : call.rulesB[i].action = "coercenull"

\* both documents are {"a": v}
OnlyKeyA == DOMAIN jsonA.fields = {"a"} /\ DOMAIN jsonB.fields = {"a"}

\* the empty value of a kind (a float64 of the documents is never integral,
\* so there is no float64 zero among them)
EmptyOfKind(v) ==
  v \in {IntV(0), StrV(""), BoolV(FALSE), ArrV(<<>>), ObjV(EmptyMap)}

NonEmptyScalar(v) ==
  (IsInt(v) \/ IsFloat64(v) \/ IsStr(v) \/ IsBool(v)) /\ ~EmptyOfKind(v)

\* the claim of C9 for the side whose Null a rule coerces: mine and other are
\* the values at a, mineRules and otherRules the rules of the two sides
CoercedAgainst(mine, mineRules, other, otherRules) ==
  (IsNil(mine) /\ MatchIn(mineRules, "a", "coercenull")) =>
    /\ call.err = "nil"
    /\ (call.lines = <<>>)
         <=> (EmptyOfKind(other)
                \/ (IsNil(other) /\ MatchIn(otherRules, "a", "coercenull")))
    /\ NonEmptyScalar(other) =>
         (Len(call.lines) = 1 /\ BothSides(call.lines[1]) /\ call.lines[1].selector = "a")

\* C9: Null coercion equivalence: with a coerce-null rule for side X matching
\* the selector and X's value Null, there is no patch iff the other value is
\* the empty value of its kind or a coerced Null; a non-empty scalar on the
\* other side gives exactly one both-sides patch.
C9_NullCoercionEquivalence ==
  (call.made /\ OnlyKeyA /\ CoerceOnly) =>
    /\ CoercedAgainst(jsonA.fields["a"], call.rulesA, jsonB.fields["a"], call.rulesB)
    /\ CoercedAgainst(jsonB.fields["a"], call.rulesB, jsonA.fields["a"], call.rulesA)

\* a coerce-null rule of a side matches the path of a Null of that side
CoercionApplies ==
  \/ \E pn \in Nodes("", jsonA) : IsNil(pn[2]) /\ MatchIn(call.rulesA, pn[1], "coercenull")
  \/ \E pn \in Nodes("", jsonB) : IsNil(pn[2]) /\ MatchIn(call.rulesB, pn[1], "coercenull")

NullAgainstZero == jsonA = Doc1("a", Null) /\ jsonB = Doc1("a", IntV(0))

CoerceAny == <<Rule(ReAny, "coercenull", "nil")>>

\* C10: Null coercion is side- and selector-specific: coerce-null rules none
\* of which matches the path of a Null of its own side change nothing (null
\* against 0 with the rule on B only gives the patch (a, null, 0)); the rule
\* on both sides, as RuleAB registers it, coerces the Null of A.
C10_CoercionSideSpecific ==
  (call.made /\ CoerceOnly) =>
    /\ ~CoercionApplies =>
         [lines |-> call.lines, err |-> call.err] = DiffResult(<<>>, <<>>, jsonA, jsonB)
    /\ (NullAgainstZero /\ call.rulesA = <<>> /\ call.rulesB = CoerceAny) =>
         (call.err = "nil" /\ call.lines = <<SingleDiff("a", "null", "0")>>)
    /\ (NullAgainstZero /\ call.rulesA = CoerceAny /\ call.rulesB = CoerceAny) =>
         (call.err = "nil" /\ call.lines = <<>>)

\* null against 0 under a rule of side B alone: the patch is there
C10_Witness ==
  /\ call.made /\ NullAgainstZero
  /\ call.rulesA = <<>> /\ call.rulesB = CoerceAny
  /\ call.lines = <<SingleDiff("a", "null", "0")>>

\* every rule the call ran under is of the action
CallOnly(action) ==
  /\ \A i \in 1..Len(call.rulesA) : call.rulesA[i].action = action
  /\ \A i \in 1..Len(call.rulesB) : call.rulesB[i].action = action

\* a rule of the action in the list matches the selector
Hits(rules, action, selector) ==
  \E i \in 1..Len(rules) :
    rules[i].action = action /\ MatchString(rules[i].selector, selector)

\* what Diff returns for the two documents with no rule registered
Unruled == DiffResult(<<>>, <<>>, jsonA, jsonB)

\* what the call returned
Returned == [lines |-> call.lines, err |-> call.err]

\* the patch is one an ignore rule of the call drops, as C11 has it
IgnoreDrops(line) ==
  \/ LeftOnly(line) /\ Hits(call.rulesA, "ignore", line.selector)
  \/ RightOnly(line) /\ Hits(call.rulesB, "ignore", line.selector)
  \/ /\ BothSides(line)
     /\ \/ Hits(call.rulesA, "ignore", line.selector)
        \/ Hits(call.rulesB, "ignore", line.selector)

IgnoreKeeps(line) == ~IgnoreDrops(line)

\* C11: Ignore suppression by side: under ignore rules the patches returned
\* are those of the diff without rules, in order, less exactly the left-only
\* patches a rule of side A matches, the right-only patches a rule of side B
\* matches and the both-sides patches a rule of either side matches.
C11_IgnoreBySide ==
  (call.made /\ CallOnly("ignore")) =>
    /\ call.err = Unruled.err
    /\ call.lines = SelectSeq(Unruled.lines, IgnoreKeeps)

\* an ignore rule of side A alone matches b: the right-only patch at b stays
C11_Witness ==
  /\ call.made /\ call.err = "nil"
  /\ call.rulesA = <<Rule(ReLit("b"), "ignore", "nil")>> /\ call.rulesB = <<>>
  /\ call.lines = <<SingleDiff("b", "", "1")>>

\* the representation of a zero value: 0, "", false, [], {} or null
ZeroText(text) == text \in {"0", "\"\"", "false", "[]", "{}", "null"}

\* the patch is one an ignore-if-zero rule of the call drops, as C12 has it
ZeroDrops(line) ==
  \/ /\ LeftOnly(line) /\ ZeroText(line.valueA)
     /\ Hits(call.rulesA, "ignoreIfZero", line.selector)
  \/ /\ RightOnly(line) /\ ZeroText(line.valueB)
     /\ Hits(call.rulesB, "ignoreIfZero", line.selector)
  \/ /\ BothSides(line)
     /\ \/ ZeroText(line.valueA) /\ Hits(call.rulesA, "ignoreIfZero", line.selector)
        \/ ZeroText(line.valueB) /\ Hits(call.rulesB, "ignoreIfZero", line.selector)

ZeroKeeps(line) == ~ZeroDrops(line)

\* C12: Zero suppression: under ignore-if-zero rules the patches returned are
\* those of the diff without rules, in order, less exactly the patches whose
\* value on a side with a matching rule is a zero value (0, "", false, [],
\* {} or null); a non-zero value is never dropped.
C12_ZeroSuppression ==
  (call.made /\ CallOnly("ignoreIfZero")) =>
    /\ call.err = Unruled.err
    /\ call.lines = SelectSeq(Unruled.lines, ZeroKeeps)

\* the two values are of different kinds, int and float64 counting as one
KindsDiffer(valueA, valueB) ==
  /\ TypeOf(valueA) # TypeOf(valueB)
  /\ ~((IsInt(valueA) \/ IsFloat64(valueA)) /\ (IsInt(valueB) \/ IsFloat64(valueB)))

\* C13: Kind mismatch: when the values two documents {"a": v} hold at a are
\* of different kinds (int and float64 being one kind) and no rule coerces a
\* null or a string or suppresses a patch, the call returns exactly one
\* patch, the both-sides patch at a carrying the two representations, and
\* nothing for what lies below a.
C13_KindMismatch ==
  (/\ call.made /\ OnlyKeyA /\ NothingSuppressed
   /\ ~CallHas("coercenull") /\ ~CallHas("stringNumber")
   /\ KindsDiffer(jsonA.fields["a"], jsonB.fields["a"])) =>
    /\ call.err = "nil"
    /\ call.lines = <<SingleDiff("a", Marshal(jsonA.fields["a"]),
                                  Marshal(jsonB.fields["a"]))>>

\* both documents are {"a": n}, n an int or a float64, one of them a float64
NumbersAtA ==
  /\ OnlyKeyA
  /\ IsInt(jsonA.fields["a"]) \/ IsFloat64(jsonA.fields["a"])
  /\ IsInt(jsonB.fields["a"]) \/ IsFloat64(jsonB.fields["a"])
  /\ IsFloat64(jsonA.fields["a"]) \/ IsFloat64(jsonB.fields["a"])

\* what the float-equal function of the call at a says of the two numbers
FloatsEqualAtA ==
  FloatEqualApply(floatEqualFunc(CallRun, "a"),
                  mustFloat64(jsonA.fields["a"]), mustFloat64(jsonB.fields["a"]))

\* C14: Numeric widening is symmetric: for an int against a float64, a
\* float64 against an int and a float64 against a float64, under float-equal
\* rules or none, the call returns no patch when the float-equal function of
\* the selector holds of the two numbers as floats and the one both-sides
\* patch when it does not; the call on the swapped documents returns a patch
\* in the same cases.
C14_NumericWidening ==
  (call.made /\ CallOnly("floatEqual") /\ NumbersAtA) =>
    /\ call.err = "nil"
    /\ call.lines =
         IF FloatsEqualAtA THEN <<>>
         ELSE <<SingleDiff("a", Marshal(jsonA.fields["a"]), Marshal(jsonB.fields["a"]))>>
    /\ (DiffResult(call.rulesA, call.rulesB, jsonB, jsonA).lines = <<>>)
         <=> (call.lines = <<>>)

\* 1 against 1.5 under a float-equal function that allows 0.5: no patch
C14_Witness ==
  /\ call.made /\ call.err = "nil" /\ call.lines = <<>>
  /\ jsonA = Doc1("a", IntV(1)) /\ jsonB = Doc1("a", FloatV(3))
  /\ call.rulesA = <<Rule(ReAny, "floatEqual", "half")>>

\* the one key of the two documents, and the numbers under it
TheKey == CHOOSE k \in DOMAIN jsonA.fields : TRUE
NumberA == jsonA.fields[TheKey]
NumberB == jsonB.fields[TheKey]

\* the rule matches the selector as a float-equal rule
FloatRuleHits(rule, selector) ==
  rule.action = "floatEqual" /\ MatchString(rule.selector, selector)

\* fn is the function of the first rule of the call, in registration order,
\* that matches the selector, or the default when none does
Selected(fn, selector) ==
  \/ \E i \in 1..Len(call.rulesA) :
       /\ FloatRuleHits(call.rulesA[i], selector)
       /\ \A j \in 1..(i - 1) : ~FloatRuleHits(call.rulesA[j], selector)
       /\ fn = call.rulesA[i].floatEqualFunc
  \/ /\ \A i \in 1..Len(call.rulesA) : ~FloatRuleHits(call.rulesA[i], selector)
     /\ fn = "default"

HitsTheKey(rule) == FloatRuleHits(rule, TheKey)

\* C15: Float-equal selection: a pair of numbers compared as floats at a
\* selector is compared with the function of the first float-equal rule, in
\* registration order, whose pattern matches the selector, and with the
\* default (equal up to 1e-9) when none matches: the call returns no patch
\* exactly when that function holds of the pair. The rules that do not match
\* the selector change nothing: the call without them returns the same.
C15_FloatEqualSelection ==
  (call.made /\ (IsFloat64(NumberA) \/ IsFloat64(NumberB))) =>
    /\ call.err = "nil"
    /\ \A fn \in FloatEqualFuncs \cup {"default"} :
         Selected(fn, TheKey) =>
           ((call.lines = <<>>)
              <=> FloatEqualApply(fn, mustFloat64(NumberA), mustFloat64(NumberB)))
    /\ \E fn \in FloatEqualFuncs \cup {"default"} : Selected(fn, TheKey)
    /\ Returned = DiffResult(SelectSeq(call.rulesA, HitsTheKey),
                             SelectSeq(call.rulesB, HitsTheKey), jsonA, jsonB)

\* 1.5 against 2.5 at a: the rule for b allowing 1.0 does not match, the
\* rule for everything allowing 0.5 is used, and the patch is returned
C15_Witness ==
  /\ call.made
  /\ call.rulesA = <<Rule(ReLit("b"), "floatEqual", "one"), Rule(ReAny, "floatEqual", "half")>>
  /\ jsonA = Doc1("a", FloatV(3)) /\ jsonB = Doc1("a", FloatV(5))
  /\ call.lines = <<SingleDiff("a", "1.5", "2.5")>>

\* both documents are {"a": v}, v a string or a number
StringsAtA ==
  /\ OnlyKeyA
  /\ jsonA.fields["a"] \in StringValues /\ jsonB.fields["a"] \in StringValues

\* a string that denotes an integer or, when it holds a dot, a float, read
\* as that number; any other value as it is
Denoted(v) ==
  IF IsStr(v) /\ (IF Contains(v.s, ".") THEN ParseFloatOk(v.s) ELSE AtoiOk(v.s))
  THEN NumberOf(v.s)
  ELSE v

\* the two values are the same: numbers of the same magnitude, or equal
SameValue(v, w) ==
  IF (IsInt(v) \/ IsFloat64(v)) /\ (IsInt(w) \/ IsFloat64(w))
  THEN mustFloat64(v) = mustFloat64(w)
  ELSE v = w

\* C16: String-number coercion: at a selector a string-number rule matches,
\* a string that denotes a number is compared as that number: the call
\* returns no patch when the two values read so are the same ("1" against 1,
\* "a" against "a") and one both-sides patch at the selector when they are
\* not ("a" against 1); with no string-number rule matching, the call returns
\* what it returns without rules, a kind mismatch for "1" against 1.
C16_StringNumber ==
  (call.made /\ CallOnly("stringNumber") /\ StringsAtA) =>
    IF Hits(call.rulesA, "stringNumber", "a")
    THEN /\ call.err = "nil"
         /\ SameValue(Denoted(jsonA.fields["a"]), Denoted(jsonB.fields["a"]))
              => call.lines = <<>>
         /\ ~SameValue(Denoted(jsonA.fields["a"]), Denoted(jsonB.fields["a"]))
              => /\ Len(call.lines) = 1
                 /\ call.lines[1].selector = "a" /\ BothSides(call.lines[1])
    ELSE /\ Returned = Unruled
         /\ (IsStr(jsonA.fields["a"]) /\ ~IsStr(jsonB.fields["a"]))
              => call.lines = <<SingleDiff("a", Marshal(jsonA.fields["a"]),
                                            Marshal(jsonB.fields["a"]))>>

\* the rule matches the selector as a custom-equal rule
CustomRuleHits(rule, selector) ==
  rule.action = "customEqual" /\ MatchString(rule.selector, selector)

\* fn is the predicate of the first rule of the call, in registration
\* order, that matches the selector
CustomSelected(fn, selector) ==
  \E i \in 1..Len(call.rulesA) :
    /\ CustomRuleHits(call.rulesA[i], selector)
    /\ \A j \in 1..(i - 1) : ~CustomRuleHits(call.rulesA[j], selector)
    /\ fn = call.rulesA[i].customEqualFunc

\* C17: Custom-equal override: when custom-equal rules match the selector of
\* a node, the predicate of the first of them in registration order is
\* applied to the selector and the two values; when it holds the call
\* returns no patch for the node nor for anything below it, when it does not
\* hold the call returns the one both-sides patch at the selector and
\* nothing below it; when no custom-equal rule matches, the node is compared
\* as without rules.
C17_CustomEqualOverride ==
  call.made =>
    /\ call.err = "nil"
    /\ \A fn \in CustomEqualFuncs :
         CustomSelected(fn, TheKey) =>
           call.lines =
             IF CustomEqualApply(fn, TheKey, NumberA, NumberB) THEN <<>>
             ELSE <<SingleDiff(TheKey, Marshal(NumberA), Marshal(NumberB))>>
    /\ (\A i \in 1..Len(call.rulesA) : ~CustomRuleHits(call.rulesA[i], TheKey))
         => Returned = Unruled

\* {"b": {"c": 0}} against {"b": {"c": 1}}: the rule for b, registered
\* first, holds always, so that neither b nor b.c is reported
C17_Witness ==
  /\ call.made /\ call.lines = <<>>
  /\ call.rulesA = <<CustomRule(ReLit("b"), "always"), CustomRule(ReAny, "near")>>
  /\ jsonA = Doc1("b", Doc1("c", IntV(0))) /\ jsonB = Doc1("b", Doc1("c", IntV(1)))

\* C18: Determinism: a Diff call on the same two documents under the same
\* rules returns the same patches in the same order with the same
\* representations, and the same error, whatever the order in which the run
\* ranges over the maps of the documents.
C18_Determinism ==
  call.made =>
    \A range \in Iterations :
      DiffRanged(call.rulesA, call.rulesB, jsonA, jsonB, range) = Returned

\* a call with several patches on objects whose keys a range can deliver
\* out of order
C18_Witness ==
  /\ call.made /\ call.err = "nil" /\ Len(call.lines) >= 3
  /\ RangeKeys(jsonA.fields, "rot") # sortedKeys(jsonA.fields, "rot")
  /\ RangeKeys(jsonB.fields, "down") # sortedKeys(jsonB.fields, "down")

\* a step is a Diff call: the only steps that change the record of the call
DiffStep == call' # call

\* C19: No state across calls: a Diff call leaves the rule lists and the
\* stored diff list of the Differ as they are, and the stored list is empty;
\* what the call returns is what a Differ fresh from NewDiffer with the same
\* rules in the same order returns; a call after a call under the same rules
\* returns the same again, so that a list returned earlier stands.
C19_NoStateAcrossCalls ==
  [][DiffStep =>
       /\ rulesA' = rulesA /\ rulesB' = rulesB
       /\ diff' = diff /\ diff = <<>>
       /\ call'.made /\ call'.rulesA = rulesA /\ call'.rulesB = rulesB
       /\ [lines |-> call'.lines, err |-> call'.err]
            = DiffResult(rulesA, rulesB, jsonA, jsonB)
       /\ ~(call.made /\ call.rulesA = rulesA /\ call.rulesB = rulesB)]_vars

\* a call of a Differ holding a rule: it ran under the rule and returned
\* patches, and the Differ stores none
C19_Witness ==
  /\ call.made /\ call.err = "nil" /\ Len(call.lines) >= 2
  /\ rulesA # <<>> /\ call.rulesA = rulesA /\ call.rulesB = rulesB
  /\ diff = <<>>

\* C20: The zero-value classification is total: a call under ignore-if-zero
\* rules does not panic where the call without rules does not, whatever the
\* kind of the value of a patch a rule matches: a field or an array element
\* of one side only (a null, an array or an object among them) or the two
\* values of a both-sides patch (a float64 in a kind mismatch among them).
C20_IsZeroTotal ==
  (call.made /\ CallOnly("ignoreIfZero") /\ Unruled.err # "panic") =>
    call.err # "panic"

\* the document holds a value at the selector
Present(selector, doc) == \E pn \in Nodes("", doc) : pn[1] = selector

\* C21: Every patch of a returned list is in exactly one of three states:
\* left-only, right-only or both-present; a representation is the empty
\* text exactly when the document of that side holds no value at the
\* selector (a present value, null among them, has a representation that is
\* not empty), and no patch has both representations empty.
C21_PatchStates ==
  call.made =>
    \A line \in Lines :
      /\ ~(line.valueA = "" /\ line.valueB = "")
      /\ (line.valueA = "") <=> ~Present(line.selector, jsonA)
      /\ (line.valueB = "") <=> ~Present(line.selector, jsonB)

\* the text is the JSON text of the value the document holds at the selector
ShowsOriginal(selector, text, doc) ==
  \E pn \in Nodes("", doc) : pn[1] = selector /\ text = Marshal(pn[2])

\* C22: Every representation of a patch that is not empty is the JSON text
\* of the value at the selector of the patch in the document of that side as
\* it was given, whatever rule governed the comparison: a string is shown
\* quoted, a null as null.
C22_OriginalRepresentation ==
  call.made =>
    \A line \in Lines :
      /\ line.valueA # "" => ShowsOriginal(line.selector, line.valueA, jsonA)
      /\ line.valueB # "" => ShowsOriginal(line.selector, line.valueB, jsonB)

\* C23: Scratch isolation: what a call under ignore-order rules returns for
\* two arrays is either nothing, the check having found them equal, or the
\* patches of the positional diff, which are those of the call without
\* rules: no patch of a sub-diff the check has run on a pair (A[i], B[j]) is
\* in the list, also when a check runs inside a check.
C23_ScratchIsolation ==
  (call.made /\ CallOnly("ignoreOrder") /\ ArraysAtA /\ call.err = "nil") =>
    \/ call.lines = <<>>
    \/ call.lines = Unruled.lines

\* [0, 1] against [1, 1]: the check compares 0 with both 1s and 1 with the
\* first, finds no pairing and leaves the one positional patch
C23_Witness ==
  /\ call.made /\ call.err = "nil" /\ ArraysAtA
  /\ call.rulesA = <<Rule(ReAny, "ignoreOrder", "nil")>>
  /\ ItemsA = <<IntV(0), IntV(1)>> /\ ItemsB = <<IntV(1), IntV(1)>>
  /\ call.lines = <<SingleDiff("a[0]", "0", "1")>>

\* [[0]] against [[1]]: a check inside the sub-diff of a check
C23_WitnessNested ==
  /\ call.made /\ call.err = "nil" /\ ArraysAtA
  /\ call.rulesA = <<Rule(ReAny, "ignoreOrder", "nil")>>
  /\ ItemsA = <<ArrV(<<IntV(0)>>)>> /\ ItemsB = <<ArrV(<<IntV(1)>>)>>
  /\ call.lines = <<SingleDiff("a[0][0]", "0", "1")>>

\* the first element of B, in B's order, that is not claimed and whose
\* sub-diff with A[i] is empty; 0 when there is none
FirstFit(i, claimed) ==
  LET fits == {j \in 1..Len(ItemsB) : j \notin claimed /\ SubDiffEmpty(i, j)}
  IN IF fits = {} THEN 0 ELSE CHOOSE j \in fits : \A k \in fits : j <= k

\* the elements of A from i on each claim their first fit, the claims made
\* before standing
RECURSIVE GreedyFrom(_, _)
GreedyFrom(i, claimed) ==
  IF i > Len(ItemsA) THEN TRUE
  ELSE /\ FirstFit(i, claimed) # 0
       /\ GreedyFrom(i + 1, claimed \cup {FirstFit(i, claimed)})

NotIgnoreOrder(rule) == rule.action # "ignoreOrder"

\* C24: Greedy first-fit pairing: under an ignore-order rule two arrays of
\* equal length give no patch exactly when the elements of A, taken in index
\* order, each find a first element of B not claimed before whose sub-diff
\* is empty, no claim being revisited; when one finds none, the positional
\* diff is returned in full, as the call without the ignore-order rules
\* returns it.
C24_GreedyFirstFit ==
  ( /\ call.made /\ ArraysAtA /\ shouldIgnoreOrder(CallRun, "a")
    /\ Len(ItemsA) = Len(ItemsB) ) =>
    /\ call.err = "nil"
    /\ (call.lines = <<>>) <=> GreedyFrom(1, {})
    /\ ~GreedyFrom(1, {}) =>
         Returned = DiffResult(SelectSeq(call.rulesA, NotIgnoreOrder),
                               SelectSeq(call.rulesB, NotIgnoreOrder), jsonA, jsonB)

\* [1, 0.5] against [0.5, 1.5] with a tolerance of 0.5: 1 claims 0.5, 0.5
\* finds 1.5 too far, although 1 with 1.5 and 0.5 with 0.5 pair all; both
\* positional patches are returned
C24_Witness ==
  /\ call.made /\ call.err = "nil"
  /\ call.rulesA = <<Rule(ReAny, "ignoreOrder", "nil"), Rule(ReAny, "floatEqual", "half")>>
  /\ jsonA = Doc1("a", ArrV(<<IntV(1), FloatV(1)>>))
  /\ jsonB = Doc1("a", ArrV(<<FloatV(1), FloatV(3)>>))
  /\ PairingExists /\ ~GreedyFrom(1, {})
  /\ call.lines = <<SingleDiff("a[1]", "0.5", "1.5")>>

\* the conversion of a string leaves it a string or yields the number it
\* denotes
Converted(v) == tryAsNumber(v) = v \/ tryAsNumber(v) = Denoted(v)

\* C25: String-number conversion never aborts a diff: for a String operand
\* at a selector a string-number rule matches, the conversion yields the Int
\* or Float the string denotes or gives the string back unchanged, also for
\* a string the integer/float parser accepts and JSON does not ("01"); the
\* call is not ended by a panic.
C25_ConversionNeverAborts ==
  (call.made /\ StringsAtA /\ CallOnly("stringNumber")
     /\ Hits(call.rulesA, "stringNumber", "a")) =>
    /\ call.err # "panic"
    /\ Converted(jsonA.fields["a"])
    /\ Converted(jsonB.fields["a"])

\* the same with no string in the documents that strconv accepts and JSON
\* rejects
C25_ConversionOfJSONNumbers ==
  (StringsAtA /\ StrV("01") \notin {jsonA.fields["a"], jsonB.fields["a"]})
    => C25_ConversionNeverAborts

AllOf(items, kind) == \A i \in 1..Len(items) : items[i].kind = kind

\* the two arrays at a are permutations of each other, an ignore-order rule
\* matching a
PermutedUnderRule ==
  /\ call.made /\ ArraysAtA /\ CallOnly("ignoreOrder")
  /\ Hits(call.rulesA, "ignoreOrder", "a")
  /\ Len(ItemsA) = Len(ItemsB) /\ PairingExists

\* C26: An ignore-order rule matching an array's selector applies whatever
\* the kind of the elements: two arrays of objects that are permutations of
\* each other (pairwise empty sub-diffs) produce no patch, as two arrays of
\* scalars do.
C26_IgnoreOrderAnyKind ==
  (PermutedUnderRule /\ (AllOf(ItemsA, "Object") \/ AllOf(ItemsA, "Int"))) =>
    call.err = "nil" /\ call.lines = <<>>

\* the same for arrays of scalars alone
C26_IgnoreOrderOfScalars ==
  (PermutedUnderRule /\ AllOf(ItemsA, "Int") /\ ItemsA # <<>>) =>
    call.err = "nil" /\ call.lines = <<>>

\* what the call returns for the values at one key alone
KeyResult(key) ==
  DiffResult(call.rulesA, call.rulesB,
             Doc1(key, jsonA.fields[key]), Doc1(key, jsonB.fields[key]))

\* the sub-diff of the elements at index idx of the two arrays at a key
ElemResult(key, idx) ==
  diffValues(CallRun, joinSelectors(key, IndexStep(idx)),
             jsonA.fields[key].items[idx + 1], jsonB.fields[key].items[idx + 1])

\* the call stops at the key whose comparison fails: ra and rb are what the
\* keys a and b return alone
StopsAtKey(ra, rb) ==
  /\ ra.err = "unsupported" => Returned = ra
  /\ (ra.err = "nil" /\ rb.err = "unsupported") =>
       Returned = [lines |-> ra.lines \o rb.lines, err |-> "unsupported"]
  /\ (ra.err = "nil" /\ rb.err = "nil") =>
       Returned = [lines |-> ra.lines \o rb.lines, err |-> "nil"]

\* two arrays of two elements stop at the element whose comparison fails
StopsAtIndex(r, e0, e1) ==
  r.err = "unsupported" =>
    IF e0.err = "unsupported" THEN r.lines = e0.diff
    ELSE e1.err = "unsupported" /\ r.lines = e0.diff \o e1.diff

TwoItems(key) ==
  /\ IsInterSlice(jsonA.fields[key]) /\ IsInterSlice(jsonB.fields[key])
  /\ Len(jsonA.fields[key].items) = 2 /\ Len(jsonB.fields[key].items) = 2

\* C27: Error propagation: when a value comparison fails with the
\* unsupported-type error at any depth (in a nested object, in an array, on
\* the null-coerced path, in a speculative sub-diff of the ignore-order
\* check), the traversal stops at that node: the patches appended before it
\* stay (none when the check fails, which appends to a list of its own),
\* none is appended for an element or a key later in traversal order, and
\* Diff returns the error.
C27_ErrorPropagation ==
  (call.made /\ DOMAIN jsonA.fields = {"a", "b"} /\ DOMAIN jsonB.fields = {"a", "b"}) =>
    /\ StopsAtKey(KeyResult("a"), KeyResult("b"))
    /\ \A key \in {"a", "b"} :
         TwoItems(key) =>
           \/ /\ shouldIgnoreOrder(CallRun, key)
              /\ KeyResult(key).err = "unsupported" /\ KeyResult(key).lines = <<>>
           \/ StopsAtIndex(KeyResult(key), ElemResult(key, 0), ElemResult(key, 1))

\* [0, null] against [1, null] at a, 0 against 1 at b: the patch of a[0],
\* the error at a[1], nothing for b
C27_Witness ==
  /\ call.made /\ call.rulesA = <<>> /\ call.rulesB = <<>>
  /\ jsonA = ObjV([a |-> ArrV(<<IntV(0), Null>>), b |-> IntV(0)])
  /\ jsonB = ObjV([a |-> ArrV(<<IntV(1), Null>>), b |-> IntV(1)])
  /\ call.err = "unsupported"
  /\ call.lines = <<SingleDiff("a[0]", "0", "1")>>

\* the error of a null against a null on the null-coerced path, in an
\* object under a: nothing for b
C27_WitnessCoerced ==
  /\ call.made /\ call.rulesA = <<Rule(ReAny, "coercenull", "nil")>> /\ call.rulesB = <<>>
  /\ jsonA = ObjV([a |-> Doc1("c", ArrV(<<Null>>)), b |-> IntV(0)])
  /\ jsonB = ObjV([a |-> Doc1("c", ArrV(<<Null>>)), b |-> IntV(1)])
  /\ call.err = "unsupported" /\ call.lines = <<>>

\* the error of a speculative sub-diff of the ignore-order check
C27_WitnessSpeculative ==
  /\ call.made /\ call.rulesA = <<Rule(ReAny, "ignoreOrder", "nil")>>
  /\ jsonA = ObjV([a |-> ArrV(<<IntV(0), Null>>), b |-> IntV(0)])
  /\ jsonB = ObjV([a |-> ArrV(<<IntV(1), Null>>), b |-> IntV(1)])
  /\ call.err = "unsupported" /\ call.lines = <<>>

\* success with an empty list
Empty(r) == r.err = "nil" /\ r.lines = <<>>

\* what the call returns with the documents exchanged
Exchanged == DiffResult(call.rulesA, call.rulesB, jsonB, jsonA)

\* C28: Symmetry of equality: when every rule is registered for both sides
\* and every float-equal function is symmetric, Diff(A, B) returns an empty
\* list iff Diff(B, A) returns an empty list.
C28_Symmetry ==
  (call.made /\ call.rulesA = call.rulesB) => (Empty(Returned) <=> Empty(Exchanged))

NoNull(doc) == \A pn \in Nodes("", doc) : ~IsNil(pn[2])

\* the same for documents that hold no null, neither call ending in a
\* panic, arrays under an ignore-order rule being of equal length
C28_SymmetryOfEqualLength ==
  ( /\ call.made /\ call.rulesA = call.rulesB
    /\ NoNull(jsonA) /\ NoNull(jsonB)
    /\ call.err # "panic" /\ Exchanged.err # "panic"
    /\ (CallHas("ignoreOrder") /\ ArraysAtA) => Len(ItemsA) = Len(ItemsB) ) =>
    (Empty(Returned) <=> Empty(Exchanged))

IsNumber(v) == IsInt(v) \/ IsFloat64(v)

\* the two trees are structurally equal: the same keys at every object, the
\* same length at every array, scalars of the same kind (Int and Float
\* being one) and of equal value
RECURSIVE StructurallyEqual(_, _)
StructurallyEqual(v, w) ==
  CASE IsObjxMap(v) /\ IsObjxMap(w) ->
         /\ DOMAIN v.fields = DOMAIN w.fields
         /\ \A k \in DOMAIN v.fields : StructurallyEqual(v.fields[k], w.fields[k])
    [] IsInterSlice(v) /\ IsInterSlice(w) ->
         /\ Len(v.items) = Len(w.items)
         /\ \A i \in 1..Len(v.items) : StructurallyEqual(v.items[i], w.items[i])
    [] IsNumber(v) /\ IsNumber(w) -> FloatEqualApply("default", mustFloat64(v), mustFloat64(w))
    [] OTHER -> v = w

\* C29: Soundness of an empty result: with an empty rule set, when Diff(A, B)
\* returns success with an empty list, A and B are structurally equal: the
\* key sets coincide at every object, the lengths at every array, and
\* corresponding scalars have the same kind (Int and Float counting as one)
\* and equal value.
C29_EmptyIsSound ==
  (call.made /\ call.rulesA = <<>> /\ call.rulesB = <<>> /\ Empty(Returned)) =>
    StructurallyEqual(jsonA, jsonB)

\* {"a": {"a": 0, "b": 1}} against itself, with no rule: an empty list
C29_Witness ==
  /\ call.made /\ call.rulesA = <<>> /\ call.rulesB = <<>> /\ Empty(Returned)
  /\ jsonA = Doc1("a", ObjV([a |-> IntV(0), b |-> IntV(1)]))
  /\ jsonB = jsonA

\* an array of two integers against itself
C29_WitnessArray ==
  /\ call.made /\ call.rulesA = <<>> /\ call.rulesB = <<>> /\ Empty(Returned)
  /\ jsonA = Doc1("a", ArrV(<<IntV(0), IntV(1)>>))
  /\ jsonB = jsonA

\* what went wrong in the run of the command
BadPattern == cli.ignoreB = "invalid" \/ cli.sortAll = "invalid"
BadArgs == cli.nargs # 0 /\ cli.nargs # 2
Unreadable == cli.readable = "no"
DiffFailed == call.made /\ call.err # "nil"

\* C30: CLI exit status: the command exits with 2 whenever something went
\* wrong (an invalid rule pattern, an argument count other than two, an
\* unreadable file, Diff returning an error such as malformed JSON), with 0
\* only when the comparison succeeded and found no difference, and with 1
\* exactly when at least one difference was found and printed.
C30_ExitStatus ==
  cli.pc = "exit" =>
    /\ (BadPattern \/ BadArgs \/ Unreadable \/ DiffFailed) => cli.status = exitTroubles
    /\ cli.status = exitNoDiff => (call.made /\ call.err = "nil" /\ call.lines = <<>>)
    /\ cli.status = exitDiff <=>
         (call.made /\ call.err = "nil" /\ call.lines # <<>> /\ cli.printed = call.lines)

\* the same for runs whose Diff returns no error
C30_ExitStatusOfSuccess ==
  (call.made => call.err \in {"nil", "panic"}) => C30_ExitStatus

====
